---- MODULE Spec2Model ----
(***************************************************************************)
(* The animation and timing engine of the heatwave "heartbeat" page.       *)
(*                                                                         *)
(* Two components are modelled, selected by the variable `variant`:        *)
(*   "multi"  : src/src/routes/+page.svelte (concurrent pulses, a throttled*)
(*              queue, pause/resume, restart at the end of the timeline)   *)
(*   "single" : src/unnamed/part_000 (one pulse slot, stop at the end)     *)
(*                                                                         *)
(* The browser is modelled as a single-threaded event loop: handlers run   *)
(* to completion, one per step.  Time is discrete: AdvanceTime moves       *)
(* performance.now() forward, which makes the pending animation-frame      *)
(* request and the expired timers runnable; they run in any order before   *)
(* time moves on.  User operations and the end of the fetch may happen     *)
(* between any two handlers.                                               *)
(*                                                                         *)
(* Timestamps: the code only ever compares performance.now() with a stored *)
(* timestamp by subtraction, so a timestamp is kept as the time elapsed    *)
(* since it was taken, saturated just above the largest value it is        *)
(* compared with:                                                          *)
(*   monthElapsed     = now - lastMonthUpdateTime  (Unset: the value 0)    *)
(*   heartbeatElapsed = now - lastHeartbeatTime    (0 stored: equals now)  *)
(* Progress values are in units of 1/800, in which every step of the code  *)
(* (0.01875, 0.01125, 0.05, 0.02) is a whole number and the comparisons    *)
(* with 1 come out as they do in IEEE doubles.                             *)
(* A HeartbeatParams object is referred to by its index in `heartbeats`    *)
(* (the code passes references to the elements of that array around).      *)
(* Handles: the browser never hands out an id twice, so all the code can   *)
(* observe of an id is whether it is the one a variable holds.  A pending  *)
(* callback is therefore recorded as `held` (its id is the value of        *)
(* animationFrame, resp. queueProcessingTimeout) or not, and the variable  *)
(* as Null or Held.                                                        *)
(*                                                                         *)
(* Spec and SessionSpec run the engine in a browser whose audio cue works; *)
(* AudioSpec runs a session of the multi-pulse component in browsers where *)
(* it fails.  LoaderSpec runs loadHeatwaveData alone on a range of fetch    *)
(* results, and RenderSpec renders the heartline of a range of params.      *)
(***************************************************************************)
EXTENDS Integers, Sequences, FiniteSets, TLC

VARIABLES
    variant,                \* which component this instance is
    audio,                  \* what the browser does with the audio cue of a pulse
    rendered,               \* the heartline paths in the SVG, as last rendered
    mounted,                \* FALSE once the onMount cleanup has run
    now,                    \* performance.now(), saturated at NowCap
    frameDue,               \* a display frame is due: pending rAF callbacks may run
    rafPending,             \* the pending requestAnimationFrame callbacks
    timers,                 \* the pending setTimeout(processHeartbeatQueue) timers
    fetched,                \* history: what the fetch of the data set settled with
    isLoading, loadError, heartbeats,
    hasStarted, isPaused,
    currentDate, monthElapsed, animationFrame,
    activeHeartbeats, lastHeatwaveInfo, heartbeatIdCounter,
    displayedHeartbeats, allHeatwaves,
    heartbeatElapsed, heartbeatQueue, queueProcessingTimeout,
    activeHeartbeat, heartbeatProgress, fadeOutProgress, isFadingOut,
    isShowingHeartbeat,
    triggerLog,             \* history: the triggerHeartbeat calls of this session
    lastOp                  \* history: the handler that ran last

pageVars   == <<variant, audio, rendered>>
envVars    == <<pageVars, mounted, now, frameDue, rafPending, timers>>
loadVars   == <<fetched, isLoading, loadError, heartbeats>>
clockVars  == <<hasStarted, isPaused, currentDate, monthElapsed, animationFrame>>
matchVars  == <<lastHeatwaveInfo, displayedHeartbeats, allHeatwaves>>
queueVars  == <<activeHeartbeats, heartbeatIdCounter, heartbeatElapsed,
                heartbeatQueue, queueProcessingTimeout, triggerLog>>
singleVars == <<activeHeartbeat, heartbeatProgress, fadeOutProgress, isFadingOut,
                isShowingHeartbeat>>
vars == <<envVars, loadVars, clockVars, matchVars, queueVars, singleVars, lastOp>>

----------------------------------------------------------------------------
(* Bounds of the model *)

\* milliseconds between two display frames
FrameInterval == 100
\* the fetch resolves before the clock of a run has advanced more than this
\* many months, or not at all
MaxLoadMonths == 2
\* the peak temperatures of the loader's inputs go this far beyond the range
\* minTemp..maxTemp
TempMargin == 3
\* the durations of the heartline's inputs go this far below 0 and beyond
\* maxDuration
DurationMargin == 2
\* the pause button is used in the first months of a session, this many
MaxPauseMonths == 8

(* Constants of the program *)

minHeartbeatInterval == 400
startYearMulti == 1910
startYearSingle == 1911
endYear == 2050
minSpeed == 5
maxSpeed == 30
monthUpdateInterval == 20
FirstYear == 1911
LastMonth == 11
FallbackCount == 30
\* findIndex: -1, one below the first index
NotFound == 0
\* the SVG
width == 800
height == 300
\* generateHeartlinePath; the scales in tenths
defaultDuration == 5
minDuration == 1
maxDuration == 30
minScale == 6
maxScale == 12
\* progress steps in units of 1/800
ProgressOne == 800
DrawStepMulti == 15
FadeStepMulti == 9
DrawStepSingle == 40
FadeStepSingle == 16
\* generateHeartbeatFromHeatwave
minTemp == 30
maxTemp == 42
minHeight == 50
maxHeight == 150

NowCap == minHeartbeatInterval
MonthCap == maxSpeed + 1
Unset == -1
Null == 0
Held == 1

Min(a, b) == IF a < b THEN a ELSE b
Max(a, b) == IF a > b THEN a ELSE b

----------------------------------------------------------------------------
(* Dates and their text form *)

StartDate == [year |-> FirstYear, month |-> 0]

\* mutant: the month is added twice
AddMonth_Twice(d) ==
    IF d.month >= 10 THEN [year |-> d.year + 1, month |-> d.month - 10]
    ELSE [year |-> d.year, month |-> d.month + 2]

\* newDate.setMonth(newDate.getMonth() + 1) on a date whose day is 1
AddMonth(d) ==
    IF d.month = 11 THEN [year |-> d.year + 1, month |-> 0]
    ELSE [year |-> d.year, month |-> d.month + 1]

\* mutant: the month is compared with 12, which getMonth() never returns
ReachedEnd_Never(d) == d.year >= endYear /\ d.month >= LastMonth + 1

\* mutant: the end is recognised one month late
ReachedEnd_Late(d) == d.year > endYear

\* currentDate.getFullYear() >= 2050 && currentDate.getMonth() >= 11
ReachedEnd(d) == d.year >= endYear /\ d.month >= LastMonth

DigitChar(n) == <<"0", "1", "2", "3", "4", "5", "6", "7", "8", "9">>[n + 1]

RECURSIVE NumStr(_)
\* String(n) for n >= 0
NumStr(n) == IF n < 10 THEN <<DigitChar(n)>>
             ELSE NumStr(n \div 10) \o <<DigitChar(n % 10)>>

\* s.padStart(2, "0")
PadStart2(s) == IF Len(s) >= 2 THEN s ELSE IF Len(s) = 1 THEN <<"0">> \o s ELSE <<"0", "0">>

\* mutant: the key is the year alone
YearMonthKey_Year(d) == NumStr(d.year) \o <<"-">>

\* mutant: the month is not padded to two digits
YearMonthKey_NoPad(d) == NumStr(d.year) \o <<"-">> \o NumStr(d.month + 1)

\* `${currentDate.getFullYear()}-${String(currentDate.getMonth() + 1).padStart(2, "0")}`
YearMonthKey(d) == NumStr(d.year) \o <<"-">> \o PadStart2(NumStr(d.month + 1))

\* s.startsWith(p)
StartsWith(s, p) == Len(s) >= Len(p) /\ SubSeq(s, 1, Len(p)) = p

----------------------------------------------------------------------------
(* The fetch and the data set.  A CSV text is held as it is after the     *)
(* splits at "\n" and ",": a header line and the lines below it, each a    *)
(* sequence of field texts.  The texts of number fields are made of digits, *)
(* "-" and "x", on which parseInt and parseFloat read the same number.      *)
(* Amplitudes are in units of 1/Unit px, opacities in units of              *)
(* 1/OpacityUnit.                                                           *)

Unit == maxTemp - minTemp
OpacityUnit == 10 * Unit

\* a date column of the CSV, "YYYY-MM-DD"
DateText(y, m, d) == NumStr(y) \o <<"-">> \o PadStart2(NumStr(m)) \o <<"-">> \o PadStart2(NumStr(d))

\* String(n)
IntText(n) == IF n < 0 THEN <<"-">> \o NumStr(0 - n) ELSE NumStr(n)

IsDigit(c) == \E n \in 0..9 : DigitChar(n) = c

\* the number a decimal digit stands for
DigitValue(c) == CHOOSE n \in 0..9 : DigitChar(n) = c

RECURSIVE DecimalValue(_)
\* the number a sequence of decimal digits stands for
DecimalValue(s) == IF s = <<>> THEN 0
                   ELSE DecimalValue(SubSeq(s, 1, Len(s) - 1)) * 10 + DigitValue(s[Len(s)])

\* the length of the longest prefix of s made of digits
LeadingDigits(s) ==
    CHOOSE k \in 0..Len(s) : /\ \A i \in 1..k : IsDigit(s[i])
                             /\ k = Len(s) \/ ~IsDigit(s[k + 1])

Undefined == [defined |-> FALSE, text |-> <<>>]
NaN == [nan |-> TRUE, value |-> 0]

\* values[index], index counted from 1: undefined past the end of the line
\* and for the index findIndex returns for a column that is not there
ValueAt(values, index) ==
    IF index \in 1..Len(values) THEN [defined |-> TRUE, text |-> values[index]]
    ELSE Undefined

\* parseInt(field), parseFloat(field)
ParseNumber(field) ==
    IF ~field.defined THEN NaN
    ELSE LET negative == field.text # <<>> /\ Head(field.text) = "-"
             digits == IF negative THEN Tail(field.text) ELSE field.text
             k == LeadingDigits(digits)
             n == DecimalValue(SubSeq(digits, 1, k))
         IN  IF k = 0 THEN NaN
             ELSE [nan |-> FALSE, value |-> IF negative THEN 0 - n ELSE n]

\* v || 0
OrZero(v) == IF v.nan THEN 0 ELSE v.value

\* headers.findIndex((h) => h === name), counted from 1
FindIndex(headers, name) ==
    IF \E i \in 1..Len(headers) : headers[i] = name
    THEN CHOOSE i \in 1..Len(headers) :
             headers[i] = name /\ \A j \in 1..(i - 1) : headers[j] # name
    ELSE NotFound

\* the column indices loadHeatwaveData looks up (those of the fields the engine
\* and the heartline read, and of the required columns)
ColumnIndices(headers) ==
    [startDate |-> FindIndex(headers, "Van"),
     endDate |-> FindIndex(headers, "Tot"),
     duration |-> FindIndex(headers, "Duur"),
     highestTemp |-> FindIndex(headers, "Hoogste temperatuur")]

\* the record lines.slice(1).map(...) makes of one line
Heatwave(values, index) ==
    [startDate |-> ValueAt(values, index.startDate),
     duration |-> OrZero(ParseNumber(ValueAt(values, index.duration))),
     highestTemp |-> OrZero(ParseNumber(ValueAt(values, index.highestTemp)))]

\* mutant: the height range is not reduced by the minimum height
RHeightScaled_FullHeight(temp) ==
    minHeight * (maxTemp - minTemp)
        + Min(Max(temp - minTemp, 0), maxTemp - minTemp) * maxHeight

\* mutant: the temperature is not limited to minTemp..maxTemp
RHeightScaled_Unclamped(temp) ==
    minHeight * (maxTemp - minTemp) + (temp - minTemp) * (maxHeight - minHeight)

\* rHeight of generateHeartbeatFromHeatwave, times (maxTemp - minTemp):
\* minHeight + Math.min(Math.max(temp - minTemp, 0), maxTemp - minTemp)
\*                 / (maxTemp - minTemp) * (maxHeight - minHeight)
RHeightScaled(temp) ==
    minHeight * (maxTemp - minTemp)
        + Min(Max(temp - minTemp, 0), maxTemp - minTemp) * (maxHeight - minHeight)

\* Math.random() * 0.5 + 0.5, times Unit, for Math.random() = random / Unit
RandomFactorScaled(random) == random \div 2 + Unit \div 2

\* generateHeartbeatFromHeatwave(heatwave) for a heatwave with a start date:
\* the fields of the result the engine and the heartline read
HeartbeatFromHeatwave(heatwave, random) ==
    [heatwaveData |-> TRUE, startDate |-> heatwave.startDate.text,
     highestTemp |-> heatwave.highestTemp,
     pHeight |-> 10 * Unit + RandomFactorScaled(random) * 15,
     qDepth |-> 5 * Unit + RandomFactorScaled(random) * 10,
     rHeight |-> RHeightScaled(heatwave.highestTemp),
     sDepth |-> 10 * Unit + RandomFactorScaled(random) * 15,
     tHeight |-> 15 * Unit + RandomFactorScaled(random) * 20,
     opacity |-> 8 * Unit,
     duration |-> heatwave.duration]

\* generateRandomHeartbeatParams(): no heatwaveData and no duration
RandomHeartbeatParams(random) ==
    [heatwaveData |-> FALSE, startDate |-> <<>>, highestTemp |-> 0,
     pHeight |-> random * 20 + 5 * Unit,
     qDepth |-> random * 10 + 2 * Unit,
     rHeight |-> random * 100 + 50 * Unit,
     sDepth |-> random * 30 + 20 * Unit,
     tHeight |-> random * 20 + 10 * Unit,
     opacity |-> 10 * RandomFactorScaled(random)]

\* mutant: one entry short
FallbackData_Short(random) == [i \in 1..(FallbackCount - 1) |-> RandomHeartbeatParams(random)]

\* Array.from({ length: 30 }, () => generateRandomHeartbeatParams())
FallbackData(random) == [i \in 1..FallbackCount |-> RandomHeartbeatParams(random)]

\* what fetch(csvUrl) settles with
NoResponse == [kind |-> "pending", ok |-> FALSE, headers |-> <<>>, lines |-> <<>>]
Rejected == [kind |-> "rejected", ok |-> FALSE, headers |-> <<>>, lines |-> <<>>]
HttpError == [kind |-> "response", ok |-> FALSE, headers |-> <<>>, lines |-> <<>>]
Csv(headers, lines) == [kind |-> "response", ok |-> TRUE, headers |-> headers, lines |-> lines]

\* the try block of loadHeatwaveData: whether it throws, and the heartbeats it
\* assigns when it does not
TryLoad(response, random) ==
    LET index == ColumnIndices(response.headers)
        heatwaves == [i \in DOMAIN response.lines |-> Heatwave(response.lines[i], index)]
        throws == \/ response.kind = "rejected"
                  \/ ~response.ok
                  \/ index.startDate = NotFound
                  \/ index.endDate = NotFound
                  \/ index.highestTemp = NotFound
                  \* heatwave.startDate.split("-") of undefined
                  \/ \E i \in DOMAIN heatwaves : ~heatwaves[i].startDate.defined
    IN  [threw |-> throws,
         heartbeats |-> IF throws THEN <<>>
                        ELSE [i \in DOMAIN heatwaves |->
                                 HeartbeatFromHeatwave(heatwaves[i], random)]]

\* what loadHeatwaveData leaves in heartbeats and loadError (TRUE: a message)
LoadResult(response, random) ==
    LET try == TryLoad(response, random)
    IN  IF try.threw THEN [heartbeats |-> FallbackData(random), loadError |-> TRUE]
        ELSE [heartbeats |-> try.heartbeats, loadError |-> FALSE]

StandardHeaders == <<"Van", "Tot", "Duur", "Aantal tropische dagen", "Hoogste temperatuur">>

\* the fields of a heatwave that starts and ends on one day
Record(y, m, d, temp, duration) ==
    [Van |-> DateText(y, m, d), Tot |-> DateText(y, m, d), Duur |-> IntText(duration),
     Tropisch |-> IntText(0), Temperatuur |-> IntText(temp)]

\* the line of a record under a header line; a column the loader does not know
\* holds "1"
Line(headers, record) ==
    [i \in DOMAIN headers |->
        CASE headers[i] = "Van" -> record.Van
          [] headers[i] = "Tot" -> record.Tot
          [] headers[i] = "Duur" -> record.Duur
          [] headers[i] = "Aantal tropische dagen" -> record.Tropisch
          [] headers[i] = "Hoogste temperatuur" -> record.Temperatuur
          [] OTHER -> <<"1">>]

Table(headers, records) ==
    Csv(headers, [i \in DOMAIN records |-> Line(headers, records[i])])

\* three heatwaves in consecutive months and a fourth three months later
BurstResponse ==
    Table(StandardHeaders,
          << Record(1911, 6, 10, 31, 5), Record(1911, 7, 5, 35, 6),
             Record(1911, 8, 20, 38, 9), Record(1911, 11, 1, 42, 5) >>)

\* heatwaves in the first and last month of the timeline, outside it, two in
\* one month, and one in the month before the last
EdgeResponse ==
    Table(StandardHeaders,
          << Record(1911, 1, 10, 33, 5), Record(1913, 6, 15, 38, 7),
             Record(1920, 7, 1, 33, 5), Record(1920, 7, 20, 36, 12),
             Record(2050, 11, 3, 40, 8), Record(2050, 12, 5, 41, 5),
             Record(2051, 2, 1, 39, 6), Record(1900, 7, 1, 32, 5) >>)

\* a data set with one heatwave
OneEventResponse == Table(StandardHeaders, << Record(1913, 6, 15, 38, 7) >>)

\* the responses the sessions of the engine are run on: three data sets and a
\* fetch that fails
SessionResponses == {BurstResponse, EdgeResponse, OneEventResponse, Rejected}

\* Math.random(), times Unit, in the sessions of the engine
SessionRandoms == {Unit \div 2}

----------------------------------------------------------------------------
(* The heartline.  A path is the sequence of the points of its "M x y" and  *)
(* "L x y" commands.  x is in units of 1/XUnit px, y in units of 1/YUnit px. *)

ScaleUnit == 10 * (maxDuration - minDuration)
XUnit == 2 * 1000 * ScaleUnit
YUnit == 10 * Unit

\* params.duration || 5
DurationOf(params) ==
    IF "duration" \in DOMAIN params /\ params.duration # 0 THEN params.duration
    ELSE defaultDuration

\* lengthScale, times ScaleUnit
LengthScaleScaled(params) ==
    minScale * (maxDuration - minDuration)
        + Min(Max(DurationOf(params) - minDuration, 0), maxDuration - minDuration)
              * (maxScale - minScale)

\* baseLineWidth = width * 0.8
BaseLineWidth == (width * 8) \div 10

\* lineWidth, times ScaleUnit
LineWidthScaled(params) == BaseLineWidth * LengthScaleScaled(params)

\* startX = (width - lineWidth) / 2, times 2 * ScaleUnit
StartXScaled(params) == width * ScaleUnit - LineWidthScaled(params)

\* the points of the path: where on the line (in thousandths of lineWidth), and
\* how far below the baseline (in tenths of which amplitude)
Flat(at) == [at |-> at, wave |-> "none", tenths |-> 0]
Above(at, wave, tenths) == [at |-> at, wave |-> wave, tenths |-> 0 - tenths]
Below(at, wave, tenths) == [at |-> at, wave |-> wave, tenths |-> tenths]

HeartlineShape ==
    << Flat(0), Flat(150), Flat(200),
       Above(230, "pHeight", 3), Above(250, "pHeight", 10), Above(270, "pHeight", 3),
       Flat(300), Flat(320), Flat(350),
       Below(370, "qDepth", 10),
       Above(395, "rHeight", 9), Above(400, "rHeight", 10), Above(405, "rHeight", 8),
       Below(430, "sDepth", 10),
       Flat(450), Flat(470), Flat(500), Flat(530), Flat(550),
       Above(570, "tHeight", 2), Above(600, "tHeight", 8), Above(620, "tHeight", 10),
       Above(650, "tHeight", 6), Above(680, "tHeight", 1),
       Flat(700), Flat(800), Flat(900), Flat(1000) >>

\* baselineY = height / 2, times YUnit
BaselineYScaled == (height \div 2) * YUnit

\* startX + lineWidth * at, times XUnit
AnchorX(params, anchor) ==
    StartXScaled(params) * 1000 + LineWidthScaled(params) * 2 * anchor.at

\* mutant: the waves are drawn to the other side of the baseline
AnchorY_Mirrored(params, anchor) ==
    IF anchor.wave = "none" THEN BaselineYScaled
    ELSE BaselineYScaled - params[anchor.wave] * anchor.tenths

\* baselineY - height * factor, baselineY + depth, times YUnit
AnchorY(params, anchor) ==
    IF anchor.wave = "none" THEN BaselineYScaled
    ELSE BaselineYScaled + params[anchor.wave] * anchor.tenths

\* generateHeartlinePath(params)
GenerateHeartlinePath(params) ==
    [k \in DOMAIN HeartlineShape |->
        [x |-> AnchorX(params, HeartlineShape[k]), y |-> AnchorY(params, HeartlineShape[k])]]

----------------------------------------------------------------------------
(* Initial state: the component has been constructed and onMount has       *)
(* started the fetch.                                                      *)

Constructed ==
    /\ variant \in {"multi", "single"}
    /\ rendered = <<>>
    /\ mounted = TRUE
    /\ now = 0
    /\ frameDue = FALSE
    /\ rafPending = [held |-> 0, orphaned |-> 0]
    /\ timers = <<>>
    /\ fetched = NoResponse
    /\ isLoading = TRUE
    /\ loadError = FALSE
    /\ heartbeats = <<>>
    /\ hasStarted = FALSE
    /\ isPaused = FALSE
    /\ currentDate = StartDate
    /\ monthElapsed = Unset
    /\ animationFrame = Null
    /\ activeHeartbeats = <<>>
    /\ lastHeatwaveInfo = Null
    /\ heartbeatIdCounter = 0
    /\ displayedHeartbeats = <<>>
    /\ allHeatwaves = <<>>
    /\ heartbeatElapsed = 0
    /\ heartbeatQueue = <<>>
    /\ queueProcessingTimeout = Null
    /\ activeHeartbeat = Null
    /\ heartbeatProgress = 0
    /\ fadeOutProgress = 0
    /\ isFadingOut = FALSE
    /\ isShowingHeartbeat = FALSE
    /\ triggerLog = <<>>
    /\ lastOp = "init"

\* the audio cue works
Init == Constructed /\ audio = "ok"

----------------------------------------------------------------------------
(* requestAnimationFrame and setTimeout *)

\* requestAnimationFrame(mainAnimationLoop), its id assigned to animationFrame:
\* a request whose id animationFrame held until now stays pending, no longer held
RequestFrame(r) == [held |-> 1, orphaned |-> r.orphaned + r.held]

\* mutant: the request is not cancelled
CancelFrame_Forgotten(r, handle) == r

\* if (animationFrame) cancelAnimationFrame(animationFrame)
CancelFrame(r, handle) == IF handle # Null THEN [r EXCEPT !.held = 0] ELSE r

\* the pending requests once the callback of request f ("held" or "orphaned") runs
TakeFrame(r, f) == IF f = "held" THEN [r EXCEPT !.held = 0]
                   ELSE [r EXCEPT !.orphaned = @ - 1]

FramesPending == rafPending.held + rafPending.orphaned

RunnableFrames == (IF rafPending.held > 0 THEN {"held"} ELSE {})
                  \cup (IF rafPending.orphaned > 0 THEN {"orphaned"} ELSE {})

\* if (queueProcessingTimeout) clearTimeout(queueProcessingTimeout)
ClearTimeout(ts, handle) ==
    IF handle # Null THEN SelectSeq(ts, LAMBDA t : ~t.held) ELSE ts

\* queueProcessingTimeout = setTimeout(..., delay)
SetHeldTimeout(ts, delay) ==
    [i \in 1..Len(ts) |-> [ts[i] EXCEPT !.held = FALSE]]
        \o <<[held |-> TRUE, remaining |-> delay]>>

\* setTimeout(..., delay), the id dropped
SetTimeout(ts, delay) == Append(ts, [held |-> FALSE, remaining |-> delay])

\* the sequence without its i-th element
RemoveAt(ts, i) == SubSeq(ts, 1, i - 1) \o SubSeq(ts, i + 1, Len(ts))

----------------------------------------------------------------------------
(* The pulse queue (multi-pulse component).  The operators work on a record *)
(* of the variables the queue functions read and write.                     *)

QueueState ==
    [heartbeatQueue |-> heartbeatQueue, activeHeartbeats |-> activeHeartbeats,
     heartbeatIdCounter |-> heartbeatIdCounter, heartbeatElapsed |-> heartbeatElapsed,
     timers |-> timers, queueProcessingTimeout |-> queueProcessingTimeout,
     triggerLog |-> triggerLog, audio |-> audio, thrown |-> FALSE]

\* what the audio cue of a pulse can do: play; heartbeatSound.play() rejects (the
\* rejection is handled by its catch); playBeepSound() throws, from the
\* AudioContext constructor or from a call on the context
AudioOutcomes == {"ok", "playRejected", "beepThrows"}

\* playHeartbeatSound() throws
PlayHeartbeatSoundThrows(q) == q.audio = "beepThrows"

\* mutant: a trigger schedules no further drain of the queue
TriggerHeartbeat_NoDrain(q, p) ==
    LET newHeartbeat == [id |-> q.heartbeatIdCounter, params |-> p, progress |-> 0,
                         fadeProgress |-> 0, isFading |-> FALSE]
        played == [q EXCEPT !.heartbeatIdCounter = @ + 1,
                            !.activeHeartbeats = Append(@, newHeartbeat),
                            !.heartbeatElapsed = 0,
                            !.triggerLog = Append(@, [id |-> q.heartbeatIdCounter, params |-> p,
                                                      gap |-> IF q.heartbeatIdCounter = 0
                                                              THEN Unset
                                                              ELSE q.heartbeatElapsed])]
    IN  IF PlayHeartbeatSoundThrows(q) THEN [played EXCEPT !.thrown = TRUE] ELSE played

\* triggerHeartbeat(heartbeatParams), the queue already shifted; `thrown` when
\* playHeartbeatSound() throws, which ends the handler that called
TriggerHeartbeat(q, p) ==
    LET newHeartbeat == [id |-> q.heartbeatIdCounter, params |-> p, progress |-> 0,
                         fadeProgress |-> 0, isFading |-> FALSE]
        played == [q EXCEPT !.heartbeatIdCounter = @ + 1,
                            !.activeHeartbeats = Append(@, newHeartbeat),
                            !.heartbeatElapsed = 0,
                            !.triggerLog = Append(@, [id |-> q.heartbeatIdCounter, params |-> p,
                                                      gap |-> IF q.heartbeatIdCounter = 0
                                                              THEN Unset
                                                              ELSE q.heartbeatElapsed])]
    IN  IF PlayHeartbeatSoundThrows(q) THEN [played EXCEPT !.thrown = TRUE]
        ELSE [played EXCEPT !.timers = IF q.heartbeatQueue # <<>>
                                       THEN SetTimeout(@, minHeartbeatInterval)
                                       ELSE @]

\* mutant: the head of the queue is triggered without looking at the clock
ProcessHeartbeatQueue_NoThrottle(q) ==
    IF q.heartbeatQueue = <<>> THEN q
    ELSE TriggerHeartbeat([q EXCEPT !.heartbeatQueue = Tail(@)], Head(q.heartbeatQueue))

\* mutant: pop() instead of shift()
ProcessHeartbeatQueue_Pop(q) ==
    IF q.heartbeatQueue = <<>> THEN q
    ELSE IF q.heartbeatElapsed >= minHeartbeatInterval
    THEN TriggerHeartbeat([q EXCEPT !.heartbeatQueue = SubSeq(@, 1, Len(@) - 1)],
                          q.heartbeatQueue[Len(q.heartbeatQueue)])
    ELSE LET delay == minHeartbeatInterval - q.heartbeatElapsed
             kept == ClearTimeout(q.timers, q.queueProcessingTimeout)
         IN  [q EXCEPT !.timers = SetHeldTimeout(kept, delay),
                       !.queueProcessingTimeout = Held]

\* processHeartbeatQueue()
ProcessHeartbeatQueue(q) ==
    IF q.heartbeatQueue = <<>> THEN q
    ELSE IF q.heartbeatElapsed >= minHeartbeatInterval
    THEN TriggerHeartbeat([q EXCEPT !.heartbeatQueue = Tail(@)], Head(q.heartbeatQueue))
    ELSE LET delay == minHeartbeatInterval - q.heartbeatElapsed
             kept == ClearTimeout(q.timers, q.queueProcessingTimeout)
         IN  [q EXCEPT !.timers = SetHeldTimeout(kept, delay),
                       !.queueProcessingTimeout = Held]

\* mutant: the params are not put on the queue
QueueHeartbeat_Dropped(q, p) == ProcessHeartbeatQueue(q)

\* queueHeartbeat(heartbeatParams)
QueueHeartbeat(q, p) ==
    ProcessHeartbeatQueue([q EXCEPT !.heartbeatQueue = Append(@, p)])

\* the queue variables after the handler, from the record it computed
SetQueueState(q) ==
    /\ heartbeatQueue' = q.heartbeatQueue
    /\ activeHeartbeats' = q.activeHeartbeats
    /\ heartbeatIdCounter' = q.heartbeatIdCounter
    /\ heartbeatElapsed' = q.heartbeatElapsed
    /\ timers' = q.timers
    /\ queueProcessingTimeout' = q.queueProcessingTimeout
    /\ triggerLog' = q.triggerLog

----------------------------------------------------------------------------
(* The clock and the matcher *)

\* getTimelineSpeed() times (endYear - startYear): 5 ms in 1910 up to 30 ms in 2050
TimelineSpeedScaled(d) ==
    minSpeed * (endYear - startYearMulti) + (d.year - startYearMulti) * (maxSpeed - minSpeed)

\* now - lastMonthUpdateTime >= currentSpeed, after "Initialize timing"
QualifiesMulti(elapsed, d) ==
    elapsed # Unset /\ elapsed * (endYear - startYearMulti) >= TimelineSpeedScaled(d)

\* now - lastMonthUpdateTime >= monthUpdateInterval
QualifiesSingle(elapsed) == elapsed # Unset /\ elapsed >= monthUpdateInterval

\* mutant: the pause flag is not looked at
LoopSuspended_IgnorePause == ~hasStarted

\* if (!hasStarted || isPaused) { ...; return }
LoopSuspended == ~hasStarted \/ isPaused

\* if (lastMonthUpdateTime === 0) lastMonthUpdateTime = now
InitTiming(elapsed) == IF elapsed = Unset /\ now # 0 THEN 0 ELSE elapsed

\* mutant: the last match is taken instead of the first
FindHeartbeat_Last(hbs, key) ==
    LET hits == {i \in 1..Len(hbs) : hbs[i].heatwaveData /\ StartsWith(hbs[i].startDate, key)}
    IN  IF hits = {} THEN Null ELSE CHOOSE i \in hits : \A j \in hits : i >= j

\* heartbeats.find(hb => hb.heatwaveData && hb.heatwaveData.startDate.startsWith(key)):
\* the index of the first match, Null when there is none or heartbeats is empty
FindHeartbeat(hbs, key) ==
    LET hits == {i \in 1..Len(hbs) : hbs[i].heatwaveData /\ StartsWith(hbs[i].startDate, key)}
    IN  IF hits = {} THEN Null ELSE CHOOSE i \in hits : \A j \in hits : i <= j

\* mutant: a fading pulse is removed without waiting for the fade to complete
StepHeartbeat_DropEarly(h) ==
    IF ~h.isFading
    THEN IF h.progress < ProgressOne
         THEN <<[h EXCEPT !.progress = @ + DrawStepMulti]>>
         ELSE <<[h EXCEPT !.isFading = TRUE]>>
    ELSE <<>>

\* one animation step of one pulse: the pulse after the step, or nothing
\* when the step returns null for it
StepHeartbeat(h) ==
    IF ~h.isFading
    THEN IF h.progress < ProgressOne
         THEN <<[h EXCEPT !.progress = @ + DrawStepMulti]>>
         ELSE <<[h EXCEPT !.isFading = TRUE]>>
    ELSE IF h.fadeProgress < ProgressOne
         THEN <<[h EXCEPT !.fadeProgress = @ + FadeStepMulti]>>
         ELSE <<>>

RECURSIVE StepHeartbeats(_)
\* activeHeartbeats.map(...).filter(heartbeat => heartbeat !== null)
StepHeartbeats(hs) ==
    IF hs = <<>> THEN <<>> ELSE StepHeartbeat(Head(hs)) \o StepHeartbeats(Tail(hs))

\* mutant: the pulse counter is not reset
ResetSession_KeepCounter ==
    /\ currentDate' = StartDate
    /\ monthElapsed' = Unset
    /\ displayedHeartbeats' = <<>>
    /\ activeHeartbeats' = <<>>
    /\ lastHeatwaveInfo' = Null
    /\ heartbeatIdCounter' = heartbeatIdCounter
    /\ allHeatwaves' = <<>>
    /\ heartbeatElapsed' = now
    /\ heartbeatQueue' = <<>>
    /\ isPaused' = FALSE
    /\ timers' = ClearTimeout(timers, queueProcessingTimeout)
    /\ queueProcessingTimeout' = Null
    /\ triggerLog' = <<>>

\* restartAnimation() and the reset in startVisualization(): the fields both set
ResetSession ==
    /\ currentDate' = StartDate
    /\ monthElapsed' = Unset
    /\ displayedHeartbeats' = <<>>
    /\ activeHeartbeats' = <<>>
    /\ lastHeatwaveInfo' = Null
    /\ heartbeatIdCounter' = 0
    /\ allHeatwaves' = <<>>
    /\ heartbeatElapsed' = now
    /\ heartbeatQueue' = <<>>
    /\ isPaused' = FALSE
    /\ timers' = ClearTimeout(timers, queueProcessingTimeout)
    /\ queueProcessingTimeout' = Null
    /\ triggerLog' = <<>>

----------------------------------------------------------------------------
(* The environment *)

FrameRunnable == frameDue /\ FramesPending > 0
TimerRunnable == \E i \in 1..Len(timers) : timers[i].remaining = 0

\* the time between two display frames passes
AdvanceTime ==
    LET dt == FrameInterval IN
    /\ ~FrameRunnable
    /\ ~TimerRunnable
    /\ mounted \/ timers # <<>>
    /\ now' = Min(now + dt, NowCap)
    /\ monthElapsed' = IF monthElapsed = Unset THEN Unset ELSE Min(monthElapsed + dt, MonthCap)
    /\ heartbeatElapsed' = Min(heartbeatElapsed + dt, minHeartbeatInterval)
    /\ timers' = [i \in 1..Len(timers) |->
                     [timers[i] EXCEPT !.remaining = Max(@ - dt, 0)]]
    /\ frameDue' = TRUE
    /\ lastOp' = "advanceTime"
    /\ UNCHANGED <<pageVars, mounted, rafPending, loadVars, hasStarted, isPaused, currentDate,
                   animationFrame, matchVars, activeHeartbeats, heartbeatIdCounter,
                   heartbeatQueue, queueProcessingTimeout, triggerLog, singleVars>>

\* the fetch of loadHeatwaveData settles
LoadHeatwaveData(response, random) ==
    /\ isLoading
    /\ ~hasStarted \/ (currentDate.year - FirstYear) * 12 + currentDate.month <= MaxLoadMonths
    /\ fetched' = response
    /\ heartbeats' = LoadResult(response, random).heartbeats
    /\ loadError' = LoadResult(response, random).loadError
    /\ isLoading' = FALSE
    /\ lastOp' = "loadHeatwaveData"
    /\ UNCHANGED <<envVars, clockVars, matchVars, queueVars, singleVars>>

\* the cleanup function returned from onMount
Unmount ==
    /\ mounted
    /\ mounted' = FALSE
    /\ rafPending' = CancelFrame(rafPending, animationFrame)
    /\ lastOp' = "unmount"
    /\ UNCHANGED <<pageVars, now, frameDue, timers, loadVars, clockVars, matchVars, queueVars,
                   singleVars>>

\* the first number of stroke-dasharray, times ProgressOne / 1000:
\* progress < 1 ? `${1000 * progress} 1000` : '1000 0'
Reveal(progress) == IF progress < ProgressOne THEN progress ELSE ProgressOne

\* isFading ? 1 - fadeProgress : 1, times ProgressOne
FadeOpacity(isFading, fadeProgress) ==
    IF isFading THEN ProgressOne - fadeProgress ELSE ProgressOne

\* opacity={fadeOpacity} of the main trace of a pulse of the multi-pulse
\* component, times OpacityUnit * ProgressOne
CoreOpacity(params, fadeOpacity) == OpacityUnit * fadeOpacity

\* opacity={isFadingOut ? activeHeartbeat.opacity * (1 - fadeOutProgress)
\*                      : activeHeartbeat.opacity} of the main trace of the
\* single-slot component, times OpacityUnit * ProgressOne
TraceOpacity(params, isFading, fadeProgress) ==
    IF isFading THEN params.opacity * (ProgressOne - fadeProgress)
    ELSE params.opacity * ProgressOne

\* the paths of one pulse of the multi-pulse component: the d attribute, the
\* dash, the opacity of the main trace, and the opacities of the outer, middle
\* and inner glow (times 100 * OpacityUnit * ProgressOne)
RenderedPulse(heartbeat) ==
    LET params == heartbeats[heartbeat.params]
        fadeOpacity == FadeOpacity(heartbeat.isFading, heartbeat.fadeProgress)
    IN  [d |-> GenerateHeartlinePath(params),
         reveal |-> Reveal(heartbeat.progress),
         opacity |-> CoreOpacity(params, fadeOpacity),
         glow |-> <<params.opacity * 15 * fadeOpacity, params.opacity * 25 * fadeOpacity,
                    params.opacity * 40 * fadeOpacity>>]

\* the {#each activeHeartbeats as heartbeat} block is rendered
Render ==
    /\ variant = "multi"
    /\ mounted
    /\ rendered' = [i \in DOMAIN activeHeartbeats |-> RenderedPulse(activeHeartbeats[i])]
    /\ lastOp' = "render"
    /\ UNCHANGED <<variant, audio, mounted, now, frameDue, rafPending, timers, loadVars,
                   clockVars, matchVars, queueVars, singleVars>>

\* the {#if isShowingHeartbeat && activeHeartbeat} block of the single-slot
\* component is rendered: the dash, the opacity of the main trace and the
\* opacity of the glow (times 10 * OpacityUnit * ProgressOne); the d attribute,
\* which carries random noise in this component, is left out
RenderSingle ==
    /\ variant = "single"
    /\ mounted
    /\ rendered' =
          IF isShowingHeartbeat /\ activeHeartbeat # Null
          THEN LET params == heartbeats[activeHeartbeat]
               IN  << [reveal |-> Reveal(heartbeatProgress),
                       opacity |-> TraceOpacity(params, isFadingOut, fadeOutProgress),
                       glow |-> <<3 * TraceOpacity(params, isFadingOut, fadeOutProgress)>>] >>
          ELSE <<>>
    /\ lastOp' = "render"
    /\ UNCHANGED <<variant, audio, mounted, now, frameDue, rafPending, timers, loadVars,
                   clockVars, matchVars, queueVars, singleVars>>

----------------------------------------------------------------------------
(* Multi-pulse component *)

\* a timer set by processHeartbeatQueue or triggerHeartbeat expires
Timeout(i) ==
    /\ i \in 1..Len(timers)
    /\ timers[i].remaining = 0
    /\ SetQueueState(ProcessHeartbeatQueue([QueueState EXCEPT !.timers = RemoveAt(@, i)]))
    /\ lastOp' = "timeout"
    /\ UNCHANGED <<pageVars, mounted, now, frameDue, rafPending, loadVars, clockVars,
                   matchVars, singleVars>>

\* mutant: pausing also rewinds the clock
TogglePause_Rewind ==
    /\ variant = "multi"
    /\ mounted
    /\ isPaused' = ~isPaused
    /\ currentDate' = StartDate
    /\ lastOp' = "togglePause"
    /\ UNCHANGED <<envVars, loadVars, hasStarted, monthElapsed, animationFrame,
                   matchVars, queueVars, singleVars>>

\* togglePause()
TogglePause ==
    /\ variant = "multi"
    /\ mounted
    /\ isPaused' = ~isPaused
    /\ lastOp' = "togglePause"
    /\ UNCHANGED <<envVars, loadVars, hasStarted, currentDate, monthElapsed, animationFrame,
                   matchVars, queueVars, singleVars>>

\* mutant: the guard against a second start is missing
StartVisualizationMulti_NoGuard ==
    /\ variant = "multi"
    /\ mounted
    /\ lastOp' = "startVisualization"
    /\ hasStarted' = TRUE
    /\ ResetSession
    /\ animationFrame' = Held
    /\ rafPending' = RequestFrame(CancelFrame(rafPending, animationFrame))
    /\ UNCHANGED <<pageVars, mounted, now, frameDue, loadVars, singleVars>>

\* startVisualization()
StartVisualizationMulti ==
    /\ variant = "multi"
    /\ mounted
    /\ lastOp' = "startVisualization"
    /\ IF hasStarted /\ ~isPaused
       THEN UNCHANGED <<envVars, loadVars, clockVars, matchVars, queueVars, singleVars>>
       ELSE     /\ hasStarted' = TRUE
                /\ ResetSession
                /\ animationFrame' = Held
                /\ rafPending' = RequestFrame(CancelFrame(rafPending, animationFrame))
                /\ UNCHANGED <<pageVars, mounted, now, frameDue, loadVars, singleVars>>

\* mutant: the pulses are stepped before the matcher and the queue run
MainAnimationLoopMulti_StepFirst(f) ==
    /\ variant = "multi"
    /\ frameDue
    /\ f \in RunnableFrames
    /\ frameDue' = FALSE
    /\ lastOp' = "mainAnimationLoop"
    /\ LET others == TakeFrame(rafPending, f)
           elapsed == InitTiming(monthElapsed)
           newDate == AddMonth(currentDate)
       IN  IF LoopSuspended
           THEN /\ IF hasStarted /\ isPaused
                   THEN animationFrame' = Held /\ rafPending' = RequestFrame(others)
                   ELSE animationFrame' = animationFrame /\ rafPending' = others
                /\ UNCHANGED <<pageVars, mounted, now, timers, loadVars, hasStarted, isPaused,
                               currentDate, monthElapsed, matchVars, queueVars, singleVars>>
           ELSE IF QualifiesMulti(elapsed, currentDate) /\ ReachedEnd(newDate)
           THEN \* restartAnimation(); return
                /\ ResetSession
                /\ rafPending' = others
                /\ UNCHANGED <<pageVars, mounted, now, loadVars, hasStarted, animationFrame,
                               singleVars>>
           ELSE LET tick == QualifiesMulti(elapsed, currentDate)
                    date == IF tick THEN newDate ELSE currentDate
                    match == IF tick THEN FindHeartbeat(heartbeats, YearMonthKey(date))
                             ELSE Null
                    stepped == [QueueState EXCEPT !.activeHeartbeats = StepHeartbeats(@)]
                    q == IF match # Null THEN QueueHeartbeat(stepped, match)
                         ELSE stepped
                IN  /\ currentDate' = date
                    /\ monthElapsed' = IF tick THEN 0 ELSE elapsed
                    /\ allHeatwaves' = IF match # Null THEN <<match>> \o allHeatwaves
                                       ELSE allHeatwaves
                    /\ lastHeatwaveInfo' = IF match # Null THEN match ELSE lastHeatwaveInfo
                    /\ displayedHeartbeats' =
                          IF match # Null /\ heartbeats[match].heatwaveData
                          THEN Append(displayedHeartbeats, match) ELSE displayedHeartbeats
                    /\ SetQueueState(q)
                    /\ animationFrame' = IF q.thrown THEN animationFrame ELSE Held
                    /\ rafPending' = IF q.thrown THEN others ELSE RequestFrame(others)
                    /\ UNCHANGED <<pageVars, mounted, now, loadVars, hasStarted, isPaused,
                                   singleVars>>

\* mainAnimationLoop(), called for the frame request f
MainAnimationLoopMulti(f) ==
    /\ variant = "multi"
    /\ frameDue
    /\ f \in RunnableFrames
    /\ frameDue' = FALSE
    /\ lastOp' = "mainAnimationLoop"
    /\ LET others == TakeFrame(rafPending, f)
           elapsed == InitTiming(monthElapsed)
           newDate == AddMonth(currentDate)
       IN  IF LoopSuspended
           THEN /\ IF hasStarted /\ isPaused
                   THEN animationFrame' = Held /\ rafPending' = RequestFrame(others)
                   ELSE animationFrame' = animationFrame /\ rafPending' = others
                /\ UNCHANGED <<pageVars, mounted, now, timers, loadVars, hasStarted, isPaused,
                               currentDate, monthElapsed, matchVars, queueVars, singleVars>>
           ELSE IF QualifiesMulti(elapsed, currentDate) /\ ReachedEnd(newDate)
           THEN \* restartAnimation(); return
                /\ ResetSession
                /\ rafPending' = others
                /\ UNCHANGED <<pageVars, mounted, now, loadVars, hasStarted, animationFrame,
                               singleVars>>
           ELSE LET tick == QualifiesMulti(elapsed, currentDate)
                    date == IF tick THEN newDate ELSE currentDate
                    match == IF tick THEN FindHeartbeat(heartbeats, YearMonthKey(date))
                             ELSE Null
                    q == IF match # Null THEN QueueHeartbeat(QueueState, match)
                         ELSE QueueState
                IN  /\ currentDate' = date
                    /\ monthElapsed' = IF tick THEN 0 ELSE elapsed
                    /\ allHeatwaves' = IF match # Null THEN <<match>> \o allHeatwaves
                                       ELSE allHeatwaves
                    /\ lastHeatwaveInfo' = IF match # Null THEN match ELSE lastHeatwaveInfo
                    /\ displayedHeartbeats' =
                          IF match # Null /\ heartbeats[match].heatwaveData
                          THEN Append(displayedHeartbeats, match) ELSE displayedHeartbeats
                    \* an exception from the audio cue ends the callback here
                    /\ SetQueueState(IF q.thrown THEN q
                                     ELSE [q EXCEPT !.activeHeartbeats = StepHeartbeats(@)])
                    /\ animationFrame' = IF q.thrown THEN animationFrame ELSE Held
                    /\ rafPending' = IF q.thrown THEN others ELSE RequestFrame(others)
                    /\ UNCHANGED <<pageVars, mounted, now, loadVars, hasStarted, isPaused,
                                   singleVars>>

----------------------------------------------------------------------------
(* Single-slot component *)

\* startVisualization()
StartVisualizationSingle ==
    /\ variant = "single"
    /\ mounted
    /\ lastOp' = "startVisualization"
    /\ IF hasStarted
       THEN UNCHANGED <<envVars, loadVars, clockVars, matchVars, queueVars, singleVars>>
       ELSE     /\ hasStarted' = TRUE
                /\ currentDate' = StartDate
                /\ monthElapsed' = Unset
                /\ displayedHeartbeats' = <<>>
                /\ activeHeartbeat' = Null
                /\ lastHeatwaveInfo' = Null
                /\ isShowingHeartbeat' = FALSE
                /\ heartbeatProgress' = 0
                /\ fadeOutProgress' = 0
                /\ isFadingOut' = FALSE
                /\ animationFrame' = Held
                /\ rafPending' = RequestFrame(CancelFrame(rafPending, animationFrame))
                /\ UNCHANGED <<pageVars, mounted, now, frameDue, timers, loadVars, isPaused,
                               allHeatwaves, queueVars>>

\* the pulse slot after "Handle heartbeat animation if active"
StepSlot(slot) ==
    IF slot.isShowingHeartbeat /\ slot.activeHeartbeat # Null
    THEN IF ~slot.isFadingOut
         THEN IF slot.heartbeatProgress < ProgressOne
              THEN [slot EXCEPT !.heartbeatProgress = @ + DrawStepSingle]
              ELSE [slot EXCEPT !.isFadingOut = TRUE]
         ELSE IF slot.fadeOutProgress < ProgressOne
              THEN [slot EXCEPT !.fadeOutProgress = @ + FadeStepSingle]
              ELSE [activeHeartbeat |-> Null, isShowingHeartbeat |-> FALSE,
                    heartbeatProgress |-> 0, fadeOutProgress |-> 0, isFadingOut |-> FALSE]
    ELSE slot

\* mutant: the slot is filled in the fade phase
FillSlot_Fading(match) ==
    [activeHeartbeat |-> match, isShowingHeartbeat |-> TRUE, heartbeatProgress |-> 0,
     fadeOutProgress |-> 0, isFadingOut |-> TRUE]

\* the pulse slot after checkForHeatwaveAtCurrentDate found `match`
FillSlot(match) ==
    [activeHeartbeat |-> match, isShowingHeartbeat |-> TRUE, heartbeatProgress |-> 0,
     fadeOutProgress |-> 0, isFadingOut |-> FALSE]

Slot ==
    [activeHeartbeat |-> activeHeartbeat, isShowingHeartbeat |-> isShowingHeartbeat,
     heartbeatProgress |-> heartbeatProgress, fadeOutProgress |-> fadeOutProgress,
     isFadingOut |-> isFadingOut]

\* the slot variables of an initial state
SetSlotInit(slot) ==
    /\ activeHeartbeat = slot.activeHeartbeat
    /\ isShowingHeartbeat = slot.isShowingHeartbeat
    /\ heartbeatProgress = slot.heartbeatProgress
    /\ fadeOutProgress = slot.fadeOutProgress
    /\ isFadingOut = slot.isFadingOut

SetSlot(slot) ==
    /\ activeHeartbeat' = slot.activeHeartbeat
    /\ isShowingHeartbeat' = slot.isShowingHeartbeat
    /\ heartbeatProgress' = slot.heartbeatProgress
    /\ fadeOutProgress' = slot.fadeOutProgress
    /\ isFadingOut' = slot.isFadingOut

\* mainAnimationLoop(), called for the frame request f
MainAnimationLoopSingle(f) ==
    /\ variant = "single"
    /\ frameDue
    /\ f \in RunnableFrames
    /\ frameDue' = FALSE
    /\ lastOp' = "mainAnimationLoop"
    /\ LET others == TakeFrame(rafPending, f)
           elapsed == InitTiming(monthElapsed)
           tick == QualifiesSingle(elapsed)
           date == IF tick THEN AddMonth(currentDate) ELSE currentDate
       IN  IF ~hasStarted
           THEN /\ rafPending' = others
                /\ UNCHANGED <<pageVars, mounted, now, timers, loadVars, clockVars, matchVars,
                               queueVars, singleVars>>
           ELSE IF tick /\ ReachedEnd(date)
           THEN \* hasStarted = false; return
                /\ currentDate' = date
                /\ monthElapsed' = 0
                /\ hasStarted' = FALSE
                /\ rafPending' = others
                /\ UNCHANGED <<pageVars, mounted, now, timers, loadVars, isPaused,
                               animationFrame, matchVars, queueVars, singleVars>>
           ELSE LET match == IF tick THEN FindHeartbeat(heartbeats, YearMonthKey(date))
                             ELSE Null
                IN  /\ currentDate' = date
                    /\ monthElapsed' = IF tick THEN 0 ELSE elapsed
                    /\ lastHeatwaveInfo' = IF match # Null THEN match ELSE lastHeatwaveInfo
                    /\ displayedHeartbeats' =
                          IF match # Null /\ heartbeats[match].heatwaveData
                          THEN Append(displayedHeartbeats, match) ELSE displayedHeartbeats
                    /\ SetSlot(StepSlot(IF match # Null THEN FillSlot(match) ELSE Slot))
                    /\ animationFrame' = Held
                    /\ rafPending' = RequestFrame(others)
                    /\ UNCHANGED <<pageVars, mounted, now, timers, loadVars, hasStarted,
                                   isPaused, allHeatwaves, queueVars>>

----------------------------------------------------------------------------
(* The specification *)

Next ==
    \/ AdvanceTime
    \/ \E response \in SessionResponses, random \in SessionRandoms :
           LoadHeatwaveData(response, random)
    \/ Unmount
    \/ \E i \in 1..Len(timers) : Timeout(i)
    \/ TogglePause
    \/ StartVisualizationMulti
    \/ \E f \in {"held", "orphaned"} : MainAnimationLoopMulti(f)
    \/ StartVisualizationSingle
    \/ \E f \in {"held", "orphaned"} : MainAnimationLoopSingle(f)

Spec == Init /\ [][Next]_vars

\* the event loop keeps running: time passes, expired timers and due frame
\* callbacks are eventually called
\* a step of the browser's event loop
EventLoop ==
    \/ AdvanceTime
    \/ \E i \in 1..Len(timers) : Timeout(i)
    \/ \E f \in {"held", "orphaned"} : MainAnimationLoopMulti(f)
    \/ \E f \in {"held", "orphaned"} : MainAnimationLoopSingle(f)

\* One session of the multi-pulse component: the data is loaded, the
\* visualization is started once and the event loop keeps running (time passes,
\* and the callbacks that are due are called before it passes again).
SessionInit == Init /\ variant = "multi"

SessionNext ==
    \/ AdvanceTime
    \/ \E response \in SessionResponses, random \in SessionRandoms :
           ~hasStarted /\ LoadHeatwaveData(response, random)
    \/ ~hasStarted /\ ~isLoading /\ StartVisualizationMulti
    \/ \E i \in 1..Len(timers) : Timeout(i)
    \/ \E f \in {"held", "orphaned"} : MainAnimationLoopMulti(f)

SessionSpec == SessionInit /\ [][SessionNext]_vars /\ WF_vars(EventLoop)

\* The first months of a session of the multi-pulse component in which the
\* pause button is used: any number of times, at any moment.
PauseWindow == currentDate.year * 12 + currentDate.month < FirstYear * 12 + MaxPauseMonths

PauseNext ==
    \/ PauseWindow /\ AdvanceTime
    \/ \E response \in SessionResponses, random \in SessionRandoms :
           PauseWindow /\ ~hasStarted /\ LoadHeatwaveData(response, random)
    \/ PauseWindow /\ ~hasStarted /\ ~isLoading /\ StartVisualizationMulti
    \/ \E i \in 1..Len(timers) : PauseWindow /\ Timeout(i)
    \/ \E f \in {"held", "orphaned"} : PauseWindow /\ MainAnimationLoopMulti(f)
    \/ PauseWindow /\ TogglePause

PauseSpec == SessionInit /\ [][PauseNext]_vars /\ WF_vars(PauseWindow /\ EventLoop)

\* One session of the multi-pulse component in a browser whose audio cue
\* works, whose heartbeatSound.play() rejects, or whose playBeepSound() throws.
AudioInit == Constructed /\ variant = "multi" /\ audio \in AudioOutcomes

AudioSpec == AudioInit /\ [][SessionNext]_vars

\* The loader alone, on fetches that fail and on tables of two or three lines
\* under header lines with the columns in the usual order, with a column before
\* them, and with one of the columns missing.
Without(headers, name) == SelectSeq(headers, LAMBDA h : h # name)

HeaderLines ==
    {StandardHeaders, <<"Nr">> \o StandardHeaders}
        \cup {Without(StandardHeaders, name) : name \in {"Van", "Tot", "Duur", "Hoogste temperatuur"}}

TempInputs == (minTemp - TempMargin)..(maxTemp + TempMargin)

FirstRecord == Record(1911, 6, 10, 38, 5)
LastRecord == Record(1912, 7, 1, 33, 9)

\* texts that are not a date and do not start with a number
BadTexts == {<<>>, <<"x">>, <<"x", "1">>}

\* FirstRecord with one field that is not what the column holds
MalformedRecords ==
    {[FirstRecord EXCEPT !.Van = t] : t \in BadTexts}
        \cup {[FirstRecord EXCEPT !.Duur = t] : t \in BadTexts \cup {IntText(0 - 3)}}
        \cup {[FirstRecord EXCEPT !.Temperatuur = t] : t \in BadTexts}

\* line.split(",") of a line cut off after k fields; an empty line gives [""]
Truncated(line, k) == IF k = 0 THEN << <<>> >> ELSE SubSeq(line, 1, k)

MalformedLines(headers) ==
    {Line(headers, record) : record \in MalformedRecords}
        \cup {Truncated(Line(headers, FirstRecord), k) : k \in 0..(Len(headers) - 1)}

\* two well-formed lines with every pair of peak temperatures
PairTables(headers) ==
    {Table(headers, <<Record(1911, 6, 10, t1, 5), Record(1912, 7, 1, t2, 9)>>) :
        t1 \in TempInputs, t2 \in TempInputs}

\* one malformed line between two well-formed ones
MalformedTables(headers) ==
    {Csv(headers, <<Line(headers, FirstRecord), bad, Line(headers, LastRecord)>>) :
        bad \in MalformedLines(headers)}

FetchResponses ==
    {Rejected, HttpError}
        \cup UNION {PairTables(headers) \cup MalformedTables(headers) : headers \in HeaderLines}

\* Math.random(), times Unit
Randoms == {0, Unit \div 2, Unit - 2}

LoaderNext ==
    \E response \in FetchResponses, random \in Randoms : LoadHeatwaveData(response, random)

LoaderSpec == Init /\ [][LoaderNext]_vars

\* The heartline alone: the multi-pulse page with the pulses of one or two
\* HeartbeatParams just triggered, which are then rendered.  The params have
\* the five amplitudes from AmplitudeInputs and durations from below 0 to
\* beyond maxDuration, or no duration.
AmplitudeInputs == {0, 5 * Unit, 150 * Unit}
DurationInputs == (0 - DurationMargin)..(maxDuration + DurationMargin)

Waveform(pHeight, qDepth, rHeight, sDepth, tHeight, duration) ==
    [heatwaveData |-> TRUE, startDate |-> DateText(1911, 6, 10), highestTemp |-> 38,
     pHeight |-> pHeight, qDepth |-> qDepth, rHeight |-> rHeight, sDepth |-> sDepth,
     tHeight |-> tHeight, opacity |-> 8 * Unit, duration |-> duration]

WaveformInputs ==
    {Waveform(pHeight, qDepth, rHeight, sDepth, tHeight, duration) :
        pHeight \in AmplitudeInputs, qDepth \in AmplitudeInputs, rHeight \in AmplitudeInputs,
        sDepth \in AmplitudeInputs, tHeight \in AmplitudeInputs, duration \in DurationInputs}

\* params made from a heatwave of the given duration
WaveformOfDuration(duration) ==
    HeartbeatFromHeatwave([startDate |-> [defined |-> TRUE, text |-> DateText(1911, 6, 10)],
                           duration |-> duration, highestTemp |-> 38], Unit \div 2)

\* params with all amplitudes 0, and params with all amplitudes positive
FlatAndPeaked ==
    << Waveform(0, 0, 0, 0, 0, defaultDuration),
       Waveform(5 * Unit, 5 * Unit, 150 * Unit, 5 * Unit, 5 * Unit, defaultDuration) >>

\* the pulse triggerHeartbeat makes of heartbeats[i]
NewPulse(i) == [id |-> i - 1, params |-> i, progress |-> 0, fadeProgress |-> 0,
                isFading |-> FALSE]

\* the number of steps that take a progress from 0 to 1 or beyond
StepsToOne(step) == (ProgressOne + step - 1) \div step

\* the states a pulse of the multi-pulse component goes through
PulsesInFlight ==
    {[id |-> 0, params |-> 1, progress |-> k * DrawStepMulti, fadeProgress |-> 0,
      isFading |-> FALSE] : k \in 0..StepsToOne(DrawStepMulti)}
        \cup {[id |-> 0, params |-> 1, progress |-> StepsToOne(DrawStepMulti) * DrawStepMulti,
                fadeProgress |-> k * FadeStepMulti, isFading |-> TRUE] :
                   k \in 0..StepsToOne(FadeStepMulti)}

\* the states the filled slot of the single-slot component goes through
SlotsInFlight ==
    {[activeHeartbeat |-> 1, isShowingHeartbeat |-> TRUE,
      heartbeatProgress |-> k * DrawStepSingle, fadeOutProgress |-> 0, isFadingOut |-> FALSE] :
         k \in 0..StepsToOne(DrawStepSingle)}
        \cup {[activeHeartbeat |-> 1, isShowingHeartbeat |-> TRUE,
                heartbeatProgress |-> StepsToOne(DrawStepSingle) * DrawStepSingle,
                fadeOutProgress |-> k * FadeStepSingle, isFadingOut |-> TRUE] :
                   k \in 0..StepsToOne(FadeStepSingle)}

EmptySlot ==
    [activeHeartbeat |-> Null, isShowingHeartbeat |-> FALSE, heartbeatProgress |-> 0,
     fadeOutProgress |-> 0, isFadingOut |-> FALSE]

\* params made from a heatwave (opacity 0.8) and fallback params (opacity
\* 0.5 and above)
OpacityInputs ==
    {<<WaveformOfDuration(defaultDuration)>>}
        \cup {<<RandomHeartbeatParams(random)>> : random \in Randoms}

RenderInit ==
    /\ variant = "multi"
    /\ audio = "ok"
    /\ rendered = <<>>
    /\ mounted = TRUE
    /\ now = 0
    /\ frameDue = FALSE
    /\ rafPending = [held |-> 1, orphaned |-> 0]
    /\ timers = <<>>
    /\ fetched = NoResponse
    /\ isLoading = FALSE
    /\ \/ loadError = FALSE /\ heartbeats \in {<<w>> : w \in WaveformInputs}
       \/ loadError = FALSE /\ heartbeats = FlatAndPeaked
       \/ loadError = FALSE
          /\ heartbeats \in {<<WaveformOfDuration(d1), WaveformOfDuration(d2)>> :
                                 d1 \in DurationInputs, d2 \in DurationInputs}
       \/ loadError = TRUE
          /\ heartbeats \in {<<RandomHeartbeatParams(random), WaveformOfDuration(d)>> :
                                 random \in Randoms, d \in DurationInputs}
    /\ hasStarted = TRUE
    /\ isPaused = FALSE
    /\ currentDate = StartDate
    /\ monthElapsed = 0
    /\ animationFrame = Held
    /\ activeHeartbeats = [i \in DOMAIN heartbeats |-> NewPulse(i)]
    /\ lastHeatwaveInfo = Len(heartbeats)
    /\ heartbeatIdCounter = Len(heartbeats)
    /\ displayedHeartbeats = <<>>
    /\ allHeatwaves = <<>>
    /\ heartbeatElapsed = 0
    /\ heartbeatQueue = <<>>
    /\ queueProcessingTimeout = Null
    /\ activeHeartbeat = Null
    /\ heartbeatProgress = 0
    /\ fadeOutProgress = 0
    /\ isFadingOut = FALSE
    /\ isShowingHeartbeat = FALSE
    /\ triggerLog = <<>>
    /\ lastOp = "triggerHeartbeat"

RenderNext == Render

RenderSpec == RenderInit /\ [][RenderNext]_vars

\* The reveal and the opacities alone: either page with one pulse in each of
\* the states a pulse goes through, which is then rendered.
PulseInit ==
    /\ audio = "ok"
    /\ rendered = <<>>
    /\ mounted = TRUE
    /\ now = 0
    /\ frameDue = FALSE
    /\ rafPending = [held |-> 1, orphaned |-> 0]
    /\ timers = <<>>
    /\ fetched = NoResponse
    /\ isLoading = FALSE
    /\ \/ /\ variant = "multi"
          /\ heartbeats \in OpacityInputs
          /\ activeHeartbeats \in {<<pulse>> : pulse \in PulsesInFlight}
          /\ SetSlotInit(EmptySlot)
       \/ /\ variant = "single"
          /\ heartbeats \in OpacityInputs
          /\ activeHeartbeats = <<>>
          /\ \E slot \in SlotsInFlight : SetSlotInit(slot)
    /\ loadError = ~heartbeats[1].heatwaveData
    /\ hasStarted = TRUE
    /\ isPaused = FALSE
    /\ currentDate = StartDate
    /\ monthElapsed = 0
    /\ animationFrame = Held
    /\ lastHeatwaveInfo = Len(heartbeats)
    /\ heartbeatIdCounter = Len(activeHeartbeats)
    /\ displayedHeartbeats = <<>>
    /\ allHeatwaves = <<>>
    /\ heartbeatElapsed = 0
    /\ heartbeatQueue = <<>>
    /\ queueProcessingTimeout = Null
    /\ triggerLog = <<>>
    /\ lastOp = "triggerHeartbeat"

PulseNext == Render \/ RenderSingle

PulseSpec == PulseInit /\ [][PulseNext]_vars


----------------------------------------------------------------------------
(* Properties *)

Multi == variant = "multi"
Single == variant = "single"

\* months since year 0
MonthIndex(d) == d.year * 12 + d.month
EndDate == [year |-> endYear, month |-> LastMonth]

\* the sequence in reverse order
Reverse(s) == [i \in 1..Len(s) |-> s[Len(s) + 1 - i]]

\* the arguments of the queueHeartbeat calls of the session, in call order:
\* checkForHeatwaveAtCurrentDate prepends each to allHeatwaves before the call
Enqueued == Reverse(allHeatwaves)

\* C1: within one session, every triggerHeartbeat call after the first comes at
\* least minHeartbeatInterval after the one before it
C1_MinSpacing ==
    Multi => \A k \in 1..Len(triggerLog) :
                 triggerLog[k].gap = Unset \/ triggerLog[k].gap >= minHeartbeatInterval

\* C1 witness: three pulses were triggered from calls that came closer together
\* than minHeartbeatInterval, and one more params is still waiting
C1_Witness ==
    /\ Multi
    /\ Len(triggerLog) >= 3
    /\ heartbeatQueue # <<>>

\* the pulses triggered so far are the first enqueued params, in order, numbered
\* from 0, and the queue holds exactly the rest
FifoSoFar ==
    /\ Len(triggerLog) = heartbeatIdCounter
    /\ Len(triggerLog) + Len(heartbeatQueue) = Len(Enqueued)
    /\ \A k \in 1..Len(triggerLog) :
           triggerLog[k].id = k - 1 /\ triggerLog[k].params = Enqueued[k]
    /\ \A k \in 1..Len(heartbeatQueue) :
           heartbeatQueue[k] = Enqueued[Len(triggerLog) + k]

\* C2: in a session every enqueued params is triggered exactly once, in arrival
\* order (pulse k carries the k-th enqueued params), and while the event loop
\* runs a waiting params is eventually triggered
C2_FifoExactlyOnce ==
    /\ [](Multi => FifoSoFar)
    /\ (Multi /\ heartbeatQueue # <<>>) ~> (heartbeatQueue = <<>>)

\* C2 witness: four calls in quick succession, all four triggered
C2_Witness ==
    /\ Multi
    /\ Len(triggerLog) = 4
    /\ heartbeatQueue = <<>>
    /\ lastOp = "timeout"

\* C3 (as stated): after an animation step of the started multi-pulse clock,
\* the step at the end boundary included, the loop is scheduled again
C3_RestartContinues ==
    (Multi /\ hasStarted /\ lastOp = "mainAnimationLoop") => FramesPending > 0

\* C4: the single-slot clock stopped at December 2050 is not started, has no
\* frame requested, has matched nothing for that month, and only
\* startVisualization changes its date
C4_StopsAtEnd ==
    /\ []((Single /\ currentDate = EndDate) =>
            /\ ~hasStarted
            /\ FramesPending = 0
            /\ lastHeatwaveInfo # Null =>
                   ~StartsWith(heartbeats[lastHeatwaveInfo].startDate, YearMonthKey(EndDate))
            /\ \A k \in 1..Len(displayedHeartbeats) :
                   ~StartsWith(heartbeats[displayedHeartbeats[k]].startDate,
                               YearMonthKey(EndDate)))
    /\ [][(Single /\ currentDate = EndDate /\ currentDate' # currentDate)
             => lastOp' = "startVisualization"]_vars

\* C4 witness: the clock has stopped at December 2050 of a data set with a
\* heatwave in that month, and time has passed since
C4_Witness ==
    /\ Single
    /\ currentDate = EndDate
    /\ FindHeartbeat(heartbeats, YearMonthKey(EndDate)) # Null
    /\ lastOp = "advanceTime"

\* C5 (as stated): at most one queue-drain timer is pending
C5_OneDrainTimer == Len(timers) <= 1

\* C6 (as stated): after teardown no frame request and no drain timer is pending
C6_NothingPendingAfterTeardown ==
    ~mounted => (FramesPending = 0 /\ timers = <<>>)

\* the interval the clock compares the elapsed time with, times 140
IntervalScaled(d) ==
    IF Multi THEN 140 * minSpeed + (d.year - 1910) * (maxSpeed - minSpeed)
    ELSE 140 * monthUpdateInterval

\* now - lastMonthUpdateTime as the step sees it (a lastMonthUpdateTime of 0 is
\* first set to now)
ElapsedSeen == IF monthElapsed = Unset THEN 0 ELSE monthElapsed

\* C7: a step of the started, not paused clock advances the date by exactly one
\* month and restarts the interval when the interval has elapsed, and leaves
\* the date alone otherwise; the only other change of the date is the reset
\* to January 1911 by a start or by the restart at the end boundary
C7_OneMonthPerTick ==
    [][/\ (lastOp' = "mainAnimationLoop" /\ hasStarted /\ ~isPaused) =>
            IF ElapsedSeen * 140 >= IntervalScaled(currentDate)
            THEN \/ /\ MonthIndex(currentDate') = MonthIndex(currentDate) + 1
                    /\ monthElapsed' = 0
                 \/ /\ Multi
                    /\ MonthIndex(currentDate) + 1 = MonthIndex(EndDate)
                    /\ currentDate' = StartDate
            ELSE currentDate' = currentDate
       /\ \/ MonthIndex(currentDate') = MonthIndex(currentDate)
          \/ MonthIndex(currentDate') = MonthIndex(currentDate) + 1
          \/ /\ currentDate' = StartDate
             /\ \/ lastOp' = "startVisualization"
                \/ Multi /\ lastOp' = "mainAnimationLoop"
                         /\ MonthIndex(currentDate) + 1 = MonthIndex(EndDate)
      ]_vars

\* C7 witness: a step has just advanced the date across a year boundary
C7_Witness ==
    /\ lastOp = "mainAnimationLoop"
    /\ hasStarted
    /\ monthElapsed = 0
    /\ currentDate = [year |-> 1912, month |-> 0]

\* C8: the year of the date lies between startYear and endYear and the date is
\* never later than December 2050
C8_DateInRange ==
    /\ (IF Multi THEN startYearMulti ELSE startYearSingle) <= currentDate.year
    /\ currentDate.year <= endYear
    /\ currentDate.month \in 0..11
    /\ MonthIndex(currentDate) <= 2050 * 12 + 11

\* C8 witness: the date is in the last month before the boundary
C8_Witness ==
    /\ hasStarted
    /\ currentDate = [year |-> 2050, month |-> 10]

\* C9: a step of the paused clock changes neither the date nor anything the
\* matcher writes
C9_PausedNoAdvance ==
    [][(Multi /\ isPaused /\ lastOp' = "mainAnimationLoop") =>
           UNCHANGED <<currentDate, monthElapsed, allHeatwaves, displayedHeartbeats,
                       lastHeatwaveInfo>>]_vars

\* C9 witness: a step has run while paused, with more than the interval elapsed
C9_Witness ==
    /\ Multi
    /\ hasStarted
    /\ isPaused
    /\ lastOp = "mainAnimationLoop"
    /\ monthElapsed = MonthCap

\* C10: togglePause negates isPaused and changes nothing else
C10_ToggleOnlyPaused ==
    [][lastOp' = "togglePause" =>
           /\ isPaused' = ~isPaused
           /\ UNCHANGED <<envVars, loadVars, hasStarted, currentDate, monthElapsed,
                          animationFrame, matchVars, queueVars, singleVars>>]_vars

\* C10 witness: paused by togglePause in mid-run, with pulses active, a params
\* waiting and a drain timer pending
C10_Witness ==
    /\ lastOp = "togglePause"
    /\ isPaused
    /\ currentDate # StartDate
    /\ activeHeartbeats # <<>>
    /\ heartbeatQueue # <<>>
    /\ timers # <<>>

\* C11 (as stated): a second pause right after a pause leaves the clock paused
C11_PauseTwiceStaysPaused ==
    [][(hasStarted /\ lastOp = "togglePause" /\ isPaused /\ lastOp' = "togglePause")
           => isPaused']_vars

\* C12: a start call on a clock that is running and not paused changes nothing
C12_StartWhileRunningNoOp ==
    [][(lastOp' = "startVisualization" /\ hasStarted /\ (Single \/ ~isPaused)) =>
           UNCHANGED <<envVars, loadVars, clockVars, matchVars, queueVars, singleVars>>]_vars

\* C12 witness: startVisualization has just returned in mid-run of the multi-pulse
\* clock, with pulses active, a params waiting and a drain timer pending
C12_Witness ==
    /\ Multi
    /\ lastOp = "startVisualization"
    /\ hasStarted
    /\ ~isPaused
    /\ currentDate # StartDate
    /\ activeHeartbeats # <<>>
    /\ heartbeatQueue # <<>>
    /\ timers # <<>>
    /\ FramesPending = 1

\* C13: an effective start of the multi-pulse clock (not started, or paused)
\* leaves it started, not paused, at January 1911, with the queue, the active
\* pulses and both histories empty, the counter 0, lastHeartbeatTime 0 and
\* exactly one frame request pending
C13_EffectiveStartResets ==
    [][(Multi /\ lastOp' = "startVisualization" /\ (~hasStarted \/ isPaused)) =>
           /\ hasStarted'
           /\ ~isPaused'
           /\ currentDate' = StartDate
           /\ heartbeatQueue' = <<>>
           /\ activeHeartbeats' = <<>>
           /\ heartbeatIdCounter' = 0
           /\ heartbeatElapsed' = now'
           /\ allHeatwaves' = <<>>
           /\ displayedHeartbeats' = <<>>
           /\ rafPending'.held + rafPending'.orphaned = 1]_vars

\* C13 witness: the clock was started again from a pause in mid-run (a drain
\* timer of the run before is still pending)
C13_Witness ==
    /\ Multi
    /\ lastOp = "startVisualization"
    /\ hasStarted
    /\ currentDate = StartDate
    /\ heartbeatIdCounter = 0
    /\ timers # <<>>

\* the step about to run is a qualifying tick of the running clock
TickQualifies ==
    hasStarted /\ ~isPaused /\ ElapsedSeen * 140 >= IntervalScaled(currentDate)

\* the year and the month (1..12) of a date text "YYYY-MM-DD"
EventYear(s) ==
    1000 * DigitValue(s[1]) + 100 * DigitValue(s[2]) + 10 * DigitValue(s[3]) + DigitValue(s[4])
EventMonth(s) == 10 * DigitValue(s[6]) + DigitValue(s[7])

\* the events of heartbeats that start in the year and month of date d
EventsOfMonth(d) ==
    {i \in 1..Len(heartbeats) :
        /\ heartbeats[i].heatwaveData
        /\ EventYear(heartbeats[i].startDate) = d.year
        /\ EventMonth(heartbeats[i].startDate) = d.month + 1}

\* the step matched exactly the first event of the month of d, or nothing when
\* no event starts in that month
MatchedFirstOf(d) ==
    IF EventsOfMonth(d) = {}
    THEN displayedHeartbeats' = displayedHeartbeats /\ lastHeatwaveInfo' = lastHeatwaveInfo
    ELSE LET first == CHOOSE i \in EventsOfMonth(d) : \A j \in EventsOfMonth(d) : i <= j
         IN  /\ displayedHeartbeats' = Append(displayedHeartbeats, first)
             /\ lastHeatwaveInfo' = first

\* C14 (as stated): on every qualifying tick the event matched is the first
\* event that starts in the month the clock moves to, and none is matched iff
\* no event starts in that month
C14_MatchIffSameMonth ==
    [][(lastOp' = "mainAnimationLoop" /\ TickQualifies) =>
           MatchedFirstOf(AddMonth(currentDate))]_vars

\* C14 (amended): the same on every qualifying tick that does not move the
\* clock to the end boundary, where the matcher is not called
C14_MatchIffSameMonthBeforeEnd ==
    [][(lastOp' = "mainAnimationLoop" /\ TickQualifies
            /\ MonthIndex(AddMonth(currentDate)) < MonthIndex(EndDate)) =>
           MatchedFirstOf(AddMonth(currentDate))]_vars

\* C14 witness: the tick to July 1920, a month in which two events start, has
\* just matched the first of them
C14_Witness ==
    /\ lastOp = "mainAnimationLoop"
    /\ monthElapsed = 0
    /\ currentDate = [year |-> 1920, month |-> 6]
    /\ Cardinality(EventsOfMonth(currentDate)) = 2
    /\ lastHeatwaveInfo # Null
    /\ lastHeatwaveInfo \in EventsOfMonth(currentDate)

\* events i and j start in the same year and month
SameYearMonth(i, j) ==
    /\ heartbeats[i].heatwaveData
    /\ heartbeats[j].heatwaveData
    /\ SubSeq(heartbeats[i].startDate, 1, 7) = SubSeq(heartbeats[j].startDate, 1, 7)

\* the events the run has matched so far, wherever the code keeps them
MatchedSoFar ==
    {displayedHeartbeats[k] : k \in 1..Len(displayedHeartbeats)}
    \cup {allHeatwaves[k] : k \in 1..Len(allHeatwaves)}
    \cup {heartbeatQueue[k] : k \in 1..Len(heartbeatQueue)}
    \cup {activeHeartbeats[k].params : k \in 1..Len(activeHeartbeats)}
    \cup {triggerLog[k].params : k \in 1..Len(triggerLog)}
    \cup ({lastHeatwaveInfo, activeHeartbeat} \ {Null})

\* C15: an event that comes after another event of the same year and month in
\* heartbeats is never matched, recorded or given a pulse
C15_SecondNeverMatched ==
    \A j \in MatchedSoFar : \A i \in 1..(j - 1) : ~SameYearMonth(i, j)

\* C15 witness: the run is years past a month in which two events start, and
\* has matched the first of them
C15_Witness ==
    /\ hasStarted
    /\ currentDate.year >= 1930
    /\ \E i \in MatchedSoFar : \E j \in (i + 1)..Len(heartbeats) : SameYearMonth(i, j)

\* the data set is the single heatwave of 1913-06-15 with a peak of 38 degrees
OneEvent == fetched = OneEventResponse
June1913 == [year |-> 1913, month |-> 5]

\* C16: with the single event 1913-06-15 (38 degrees) a session of the
\* multi-pulse clock triggers at most one pulse, the pulse is triggered in a
\* step that ends with the date in 1913-06, it carries rHeight
\* 50 + (38-30)/(42-30)*100 (compared in twelfths), and once the date has
\* reached 1913-06 exactly one pulse has been triggered
C16_SingleEventOnePulse ==
    /\ []((Multi /\ OneEvent) =>
            /\ Len(triggerLog) <= 1
            /\ \A k \in 1..Len(triggerLog) :
                   heartbeats[triggerLog[k].params].rHeight = 12 * 50 + (38 - 30) * 100
            /\ \A k \in 1..Len(activeHeartbeats) :
                   heartbeats[activeHeartbeats[k].params].rHeight = 12 * 50 + (38 - 30) * 100
            /\ (hasStarted /\ MonthIndex(currentDate) >= MonthIndex(June1913))
                   => Len(triggerLog) = 1)
    /\ [][(Multi /\ OneEvent /\ Len(triggerLog') > Len(triggerLog))
             => currentDate' = June1913]_vars

\* C16 witness: the tick to 1913-06 has just triggered the pulse
C16_Witness ==
    /\ Multi
    /\ OneEvent
    /\ lastOp = "mainAnimationLoop"
    /\ currentDate = June1913
    /\ monthElapsed = 0
    /\ Len(triggerLog) = 1
    /\ Len(activeHeartbeats) = 1

\* the ids of the pulses in hs, and the pulse of hs with a given id
PulseIds(hs) == {hs[k].id : k \in 1..Len(hs)}
PulseOf(hs, id) == hs[CHOOSE k \in 1..Len(hs) : hs[k].id = id]

\* the step keeps every pulse it does not remove on the path
\* Drawing -> Fading: a fading pulse stays fading and keeps its draw progress,
\* a drawing pulse has fade progress 0, and the switch to Fading is made only
\* from a draw progress of at least 1
PulsesKeptInOrder ==
    \A id \in PulseIds(activeHeartbeats) \cap PulseIds(activeHeartbeats') :
        LET h == PulseOf(activeHeartbeats, id)
            g == PulseOf(activeHeartbeats', id)
        IN  /\ h.isFading => g.isFading
            /\ ~g.isFading => g.fadeProgress = 0
            /\ h.isFading => g.progress = h.progress
            /\ ~h.isFading => g.fadeProgress = h.fadeProgress
            /\ (~h.isFading /\ g.isFading) => h.progress >= ProgressOne
            /\ g.progress >= h.progress
            /\ g.fadeProgress >= h.fadeProgress

\* the pulses the step removes were fading with a fade progress of at least 1
RemovedWhenFaded ==
    \A id \in PulseIds(activeHeartbeats) \ PulseIds(activeHeartbeats') :
        LET h == PulseOf(activeHeartbeats, id)
        IN  h.isFading /\ h.fadeProgress >= ProgressOne

\* the step is a session reset: a start, or the restart at the end boundary
SessionReset ==
    /\ activeHeartbeats' = <<>>
    /\ currentDate' = StartDate
    /\ \/ lastOp' = "startVisualization"
       \/ lastOp' = "mainAnimationLoop" /\ MonthIndex(currentDate) + 1 = MonthIndex(EndDate)

\* C17 (as stated): every pulse goes Drawing -> Fading -> removed, and is
\* removed only while Fading with its fade progress having reached 1
C17_PulseLifeCycle ==
    [][Multi => (PulsesKeptInOrder /\ RemovedWhenFaded)]_vars

\* C17 (amended): the same, except that a session reset (start or restart)
\* removes all pulses whatever their phase
C17_PulseLifeCycleUnlessReset ==
    [][Multi => (PulsesKeptInOrder /\ (RemovedWhenFaded \/ SessionReset))]_vars

\* C17 witness: an animation step has just removed a pulse whose fade was
\* complete, while another pulse is still drawing
C17_Witness ==
    /\ Multi
    /\ lastOp = "mainAnimationLoop"
    /\ heartbeatIdCounter >= 2
    /\ activeHeartbeats # <<>>
    /\ \A k \in 1..Len(activeHeartbeats) : activeHeartbeats[k].id >= 1
    /\ \E k \in 1..Len(activeHeartbeats) : ~activeHeartbeats[k].isFading

\* C18 (as stated): every active pulse has draw and fade progress in [0, 1]
C18_ProgressInUnitInterval ==
    \A k \in 1..Len(activeHeartbeats) :
        /\ 0 <= activeHeartbeats[k].progress
        /\ activeHeartbeats[k].progress <= ProgressOne
        /\ 0 <= activeHeartbeats[k].fadeProgress
        /\ activeHeartbeats[k].fadeProgress <= ProgressOne

\* C19 (as stated): while the single-slot component shows a pulse, a frame is
\* requested, so that the pulse is stepped again
C19_PulseKeepsBeingStepped ==
    (Single /\ mounted /\ isShowingHeartbeat /\ activeHeartbeat # Null) => FramesPending > 0

\* C20: a pulse that an animation step of the multi-pulse component triggers
\* ends the step in the draw phase with a draw progress of one increment
\* (0.01875); and an event the step matches starts in the month the step has
\* advanced the clock to
C20_StepOrder ==
    [][(Multi /\ lastOp' = "mainAnimationLoop") =>
           /\ \A id \in PulseIds(activeHeartbeats') \ PulseIds(activeHeartbeats) :
                  LET g == PulseOf(activeHeartbeats', id)
                  IN  /\ g.progress * 100000 = 1875 * ProgressOne
                      /\ g.fadeProgress = 0
                      /\ ~g.isFading
           /\ Len(allHeatwaves') > Len(allHeatwaves) =>
                  /\ MonthIndex(currentDate') = MonthIndex(currentDate) + 1
                  /\ Head(allHeatwaves') \in EventsOfMonth(currentDate')]_vars

\* C20 witness: the step that advanced the clock to July 1920 has matched the
\* event of that month and triggered its pulse, which has made its first step
C20_Witness ==
    /\ Multi
    /\ lastOp = "mainAnimationLoop"
    /\ currentDate = [year |-> 1920, month |-> 6]
    /\ monthElapsed = 0
    /\ heartbeatElapsed = 0
    /\ \E k \in 1..Len(activeHeartbeats) :
           /\ activeHeartbeats[k].params \in EventsOfMonth(currentDate)
           /\ activeHeartbeats[k].progress = DrawStepMulti

\* C21: at most one animation-frame request for mainAnimationLoop is pending
C21_OneFramePending == FramesPending <= 1

\* C21 witness: the clock was started again while the paused loop of the run
\* before had its frame request pending and due
C21_Witness ==
    /\ Multi
    /\ lastOp = "startVisualization"
    /\ hasStarted
    /\ frameDue
    /\ FramesPending = 1
    /\ currentDate = StartDate
    /\ timers # <<>>

\* C22 (as stated): the loop of a started clock has no frame requested while
\* the data set is still loading
C22_NoFrameBeforeLoaded ==
    (hasStarted /\ FramesPending > 0) => ~isLoading

\* the fetch failed: it rejected, the response was not OK, or the header line
\* lacks a required column
RequiredColumns == {"Van", "Tot", "Hoogste temperatuur"}
ColumnMissing ==
    \E name \in RequiredColumns : \A i \in 1..Len(fetched.headers) : fetched.headers[i] # name
FetchFailed ==
    \/ fetched.kind = "rejected"
    \/ fetched.kind = "response" /\ ~fetched.ok
    \/ fetched.kind = "response" /\ fetched.ok /\ ColumnMissing

\* C23: after a failed fetch loadHeatwaveData has ended (isLoading false) with
\* exactly 30 entries in heartbeats, all synthetic, and loadError set
C23_FailedFetchFallsBack ==
    FetchFailed =>
        /\ lastOp = "loadHeatwaveData"
        /\ ~isLoading
        /\ loadError
        /\ Len(heartbeats) = 30
        /\ \A i \in 1..Len(heartbeats) : ~heartbeats[i].heatwaveData

\* C23 witness: the loader fell back on a table of two lines whose header line
\* has no "Tot" column
C23_Witness ==
    /\ fetched.kind = "response" /\ fetched.ok
    /\ Len(fetched.lines) = 2
    /\ \A i \in 1..Len(fetched.headers) : fetched.headers[i] # "Tot"
    /\ \E i \in 1..Len(fetched.headers) : fetched.headers[i] = "Van"
    /\ loadError
    /\ Len(heartbeats) = 30
    /\ ~isLoading

\* the fetch gave a table whose header line has the required columns
TableRead == fetched.kind = "response" /\ fetched.ok /\ ~ColumnMissing

\* C25 (as stated): a table with at most one malformed line is loaded line by
\* line: no loadError, one entry per line, none of them synthetic, and the
\* well-formed first and last lines with their date and peak temperature
C25_MalformedLineTolerated ==
    TableRead =>
        /\ ~loadError
        /\ Len(heartbeats) = Len(fetched.lines)
        /\ \A i \in 1..Len(heartbeats) : heartbeats[i].heatwaveData
        /\ Len(fetched.lines) = 3 =>
               /\ heartbeats[1].startDate = FirstRecord.Van
               /\ heartbeats[1].highestTemp = 38
               /\ heartbeats[3].startDate = LastRecord.Van
               /\ heartbeats[3].highestTemp = 33

\* the clamp of the claim: t limited to lo..hi
Clamp(t, lo, hi) == IF t < lo THEN lo ELSE IF t > hi THEN hi ELSE t

\* C28: every entry made from a heatwave has rHeight
\* 50 + (clamp(temp, 30, 42) - 30) / 12 * 100 (compared in twelfths): 50 up to
\* 30 degrees, 150 from 42 degrees, within 50..150, and not below the rHeight
\* of an entry with a lower peak temperature
C28_RHeightOfTemperature ==
    \A i \in 1..Len(heartbeats) :
        heartbeats[i].heatwaveData =>
            LET temp == heartbeats[i].highestTemp
                rHeight == heartbeats[i].rHeight
            IN  /\ rHeight = 12 * 50 + (Clamp(temp, 30, 42) - 30) * 100
                /\ temp <= 30 => rHeight = 12 * 50
                /\ temp >= 42 => rHeight = 12 * 150
                /\ rHeight >= 12 * 50 /\ rHeight <= 12 * 150
                /\ \A j \in 1..Len(heartbeats) :
                       (heartbeats[j].heatwaveData /\ heartbeats[j].highestTemp <= temp)
                           => heartbeats[j].rHeight <= rHeight

\* C28 witness: a table with peak temperatures of 29 and 36 degrees was loaded;
\* the entries have rHeight 50 and 100
C28_Witness ==
    /\ Len(heartbeats) = 2
    /\ fetched.lines[1][FindIndex(fetched.headers, "Hoogste temperatuur")] = <<"2", "9">>
    /\ fetched.lines[2][FindIndex(fetched.headers, "Hoogste temperatuur")] = <<"3", "6">>
    /\ heartbeats[1].highestTemp = 29 /\ heartbeats[1].rHeight = 12 * 50
    /\ heartbeats[2].highestTemp = 36 /\ heartbeats[2].rHeight = 12 * 100

\* the last month in which the matcher of the multi-pulse clock runs
LastMatchedMonth == [year |-> endYear, month |-> LastMonth - 1]

\* C24 (as stated): when the load has failed and the clock, started after it,
\* has run over the whole timeline, fallback entries have been matched and at
\* least one pulse has been triggered
C24_FallbackTriggersPulse ==
    (Multi /\ loadError /\ hasStarted /\ currentDate = LastMatchedMonth) =>
        (allHeatwaves # <<>> /\ heartbeatIdCounter > 0)

\* C26 (as stated): when a pulse is triggered while the audio cue fails, the
\* pulse is in the active set after the step, a drain timer is pending if the
\* queue is not empty, and if the step was an animation step the loop has
\* requested its next frame
C26_AudioFailureSwallowed ==
    [][(Multi /\ audio # "ok" /\ Len(triggerLog') = Len(triggerLog) + 1) =>
           /\ \E k \in 1..Len(activeHeartbeats') :
                  activeHeartbeats'[k].id = triggerLog'[Len(triggerLog')].id
           /\ heartbeatQueue' # <<>> => timers' # <<>>
           /\ lastOp' = "mainAnimationLoop" => FramesPending' > 0]_vars

\* a step of the single-slot loop that matched an event while a pulse was in
\* flight
SlotReplaced ==
    /\ Single
    /\ lastOp' = "mainAnimationLoop"
    /\ isShowingHeartbeat
    /\ Len(displayedHeartbeats') = Len(displayedHeartbeats) + 1

\* the slot holds the event of the month the step has moved the clock to, in
\* the draw phase
SlotHoldsNewEvent ==
    /\ isShowingHeartbeat'
    /\ activeHeartbeat' \in EventsOfMonth(currentDate')
    /\ activeHeartbeat' = displayedHeartbeats'[Len(displayedHeartbeats')]
    /\ fadeOutProgress' = 0
    /\ ~isFadingOut'

\* C27 (as stated): the slot holds an event exactly when isShowingHeartbeat is
\* true, and a step that matches an event while a pulse is in flight leaves the
\* slot with the new event, draw progress 0, fade progress 0, in the draw phase
C27_SlotReplacedAtZero ==
    /\ [](Single => (activeHeartbeat # Null <=> isShowingHeartbeat))
    /\ [][SlotReplaced => (SlotHoldsNewEvent /\ heartbeatProgress' = 0)]_vars

\* C27 (amended): the slot holds an event exactly when isShowingHeartbeat is
\* true, and a step that matches an event while a pulse is in flight leaves the
\* slot with the new event, fade progress 0, in the draw phase, and with the
\* draw progress of the one draw step (0.05) the same step makes from 0
C27_SlotReplacedAndStepped ==
    /\ [](Single => (activeHeartbeat # Null <=> isShowingHeartbeat))
    /\ [][SlotReplaced => (SlotHoldsNewEvent /\ heartbeatProgress' * 100 = 5 * ProgressOne)]_vars

\* C27 witness: the step to July 1911 has replaced the pulse of June 1911, which
\* had made one draw step, by the pulse of the event of July
C27_Witness ==
    /\ Single
    /\ lastOp = "mainAnimationLoop"
    /\ fetched = BurstResponse
    /\ currentDate = [year |-> 1911, month |-> 6]
    /\ displayedHeartbeats = <<1, 2>>
    /\ activeHeartbeat = 2
    /\ isShowingHeartbeat
    /\ heartbeatProgress = DrawStepSingle

\* the params of the i-th rendered path
RenderedParams(i) == heartbeats[activeHeartbeats[i].params]

\* the width of the i-th rendered path (its last x minus its first x)
RenderedWidth(i) == rendered[i].d[Len(rendered[i].d)].x - rendered[i].d[1].x

\* the width of a path with the scale factor tenths / 10: 0.8 * width * scale
WidthAtScale(tenths) == ((width * 8) \div 10) * tenths * (XUnit \div 10)

HasDuration(i) == "duration" \in DOMAIN RenderedParams(i)

\* the i-th path has the scale factor of the default duration 5,
\* 0.6 + (5 - 1) / (30 - 1) * 0.6
DefaultScale(i) == RenderedWidth(i) = WidthAtScale(6) + (WidthAtScale(6) \div (30 - 1)) * (5 - 1)

\* C29 (as stated): the scale factor of a rendered path does not decrease with
\* the duration on 1..30, is 0.6 at 1 and below and 1.2 at 30 and above, and for
\* params with no duration, duration 0 or a negative duration it is the scale
\* factor of duration 5
C29_ScaleOfDuration ==
    \A i \in 1..Len(rendered) :
        /\ HasDuration(i) =>
               LET duration == RenderedParams(i).duration
               IN  /\ duration = 1 => RenderedWidth(i) = WidthAtScale(6)
                   /\ duration >= 30 => RenderedWidth(i) = WidthAtScale(12)
                   /\ duration <= 0 => DefaultScale(i)
                   /\ \A j \in 1..Len(rendered) :
                          (/\ HasDuration(j)
                           /\ RenderedParams(j).duration >= 1
                           /\ RenderedParams(j).duration <= duration
                           /\ duration <= 30)
                              => RenderedWidth(j) <= RenderedWidth(i)
        /\ ~HasDuration(i) => DefaultScale(i)

\* C30: no point of a rendered path of params with non-negative amplitudes is
\* higher than baselineY - max(pHeight, rHeight, tHeight) or lower than
\* baselineY + max(qDepth, sDepth), and with all five amplitudes 0 every
\* point of the path is on the baseline (y = 150)
C30_NoOvershoot ==
    \A i \in 1..Len(rendered) :
        LET params == RenderedParams(i)
            top == 150 * YUnit - 10 * Max(params.pHeight, Max(params.rHeight, params.tHeight))
            bottom == 150 * YUnit + 10 * Max(params.qDepth, params.sDepth)
        IN  /\ Len(rendered[i].d) > 0
            /\ \A k \in 1..Len(rendered[i].d) :
                   rendered[i].d[k].y >= top /\ rendered[i].d[k].y <= bottom
            /\ (/\ params.pHeight = 0 /\ params.qDepth = 0 /\ params.rHeight = 0
                 /\ params.sDepth = 0 /\ params.tHeight = 0)
                   => \A k \in 1..Len(rendered[i].d) : rendered[i].d[k].y = 150 * YUnit

\* C30 witness: two paths were rendered, one for params whose five amplitudes
\* are 0, with 28 points, all on the baseline, and one for params with five
\* positive amplitudes, the largest height 150 and the largest depth 5, whose
\* highest point is 150 above the baseline and whose lowest is 5 below
C30_Witness ==
    /\ lastOp = "render"
    /\ Len(rendered) = 2
    /\ heartbeats = FlatAndPeaked
    /\ Len(rendered[1].d) = 28
    /\ \A k \in 1..Len(rendered[1].d) : rendered[1].d[k].y = 150 * YUnit
    /\ \E k \in 1..Len(rendered[2].d) : rendered[2].d[k].y = 0
    /\ \E k \in 1..Len(rendered[2].d) : rendered[2].d[k].y = 155 * YUnit

\* the pulse shown by the i-th rendered group
RenderedPulseState(i) ==
    IF Multi THEN activeHeartbeats[i]
    ELSE [params |-> activeHeartbeat, progress |-> heartbeatProgress,
          fadeProgress |-> fadeOutProgress, isFading |-> isFadingOut]

\* C31 (as stated): the dash of every rendered pulse reveals drawProgress of
\* the path (all of it from drawProgress 1 on), and the opacity of its main
\* trace is params.opacity before fading and params.opacity * (1 - fadeProgress)
\* once fading
C31_RevealAndOpacity ==
    lastOp = "render" =>
        \A i \in 1..Len(rendered) :
            LET pulse == RenderedPulseState(i)
                params == heartbeats[pulse.params]
            IN  /\ pulse.progress < ProgressOne => rendered[i].reveal = pulse.progress
                /\ pulse.progress >= ProgressOne => rendered[i].reveal = ProgressOne
                /\ ~pulse.isFading => rendered[i].opacity = params.opacity * ProgressOne
                /\ pulse.isFading =>
                       rendered[i].opacity = params.opacity * (ProgressOne - pulse.fadeProgress)

\* C32: in the multi-pulse component, whenever heartbeatQueue is not empty
\* after an operation, at least one timer that calls processHeartbeatQueue is
\* pending
C32_QueueHasDrainTimer == (Multi /\ heartbeatQueue # <<>>) => timers # <<>>

\* C32 witness: a drain timer has fired and triggered a second or later pulse,
\* the queue still holds params, and the timer set by that trigger is pending
C32_Witness ==
    /\ Multi
    /\ lastOp = "timeout"
    /\ Len(triggerLog) >= 2
    /\ heartbeatElapsed = 0
    /\ heartbeatQueue # <<>>
    /\ \E i \in 1..Len(timers) :
           ~timers[i].held /\ timers[i].remaining = minHeartbeatInterval

\* C34: in the multi-pulse component, heartbeatIdCounter plus the length of
\* heartbeatQueue equals the length of displayedHeartbeats, which equals the
\* length of allHeatwaves, in every reachable state
C34_MatchedTriggeredOrQueued ==
    Multi => /\ heartbeatIdCounter + Len(heartbeatQueue) = Len(displayedHeartbeats)
             /\ Len(displayedHeartbeats) = Len(allHeatwaves)

\* C34 witness: of three or more matched events at least one is triggered and
\* at least one is waiting in the queue
C34_Witness ==
    /\ Multi
    /\ heartbeatIdCounter >= 1
    /\ Len(heartbeatQueue) >= 1
    /\ Len(displayedHeartbeats) >= 3
    /\ heartbeatIdCounter + Len(heartbeatQueue) = Len(displayedHeartbeats)
    /\ Len(allHeatwaves) = Len(displayedHeartbeats)

\* a date at which the started clock is paused: February 1911
PauseDate == AddMonth(StartDate)

\* C33: in the multi-pulse component a pause or a resume leaves currentDate
\* and the pending frame alone, every step during the pause keeps currentDate
\* and leaves the loop scheduled, the date only ever changes to the following
\* month, and after the resume the clock advances again, to the month after
\* the one it was paused in (unless it is paused again)
C33_ResumeContinues ==
    /\ [][/\ (lastOp' = "togglePause" =>
                 (currentDate' = currentDate /\ FramesPending' = FramesPending))
          /\ ((hasStarted /\ isPaused) =>
                 (currentDate' = currentDate /\ (FramesPending > 0 => FramesPending' > 0)))
          /\ (currentDate' # currentDate => currentDate' = AddMonth(currentDate))]_vars
    /\ (/\ Multi /\ hasStarted /\ ~isPaused
        /\ lastOp = "togglePause" /\ currentDate = PauseDate)
           ~> (currentDate = AddMonth(PauseDate) \/ isPaused)

\* C33 witness: the started clock, paused earlier, has just been resumed at
\* PauseDate after time has passed, with the loop scheduled
C33_Witness ==
    /\ Multi
    /\ hasStarted
    /\ ~isPaused
    /\ lastOp = "togglePause"
    /\ currentDate = PauseDate
    /\ monthElapsed > 0
    /\ FramesPending > 0

\* the year and month of the k-th entry of displayedHeartbeats, in months
HistoryMonth(k) ==
    LET date == heartbeats[displayedHeartbeats[k]].startDate
    IN  EventYear(date) * 12 + EventMonth(date) - 1

\* C35: displayedHeartbeats is strictly ascending by the year and month of the
\* start date, and no entry's year and month is later than currentDate's (so
\* no event is twice in the history of a run)
C35_HistoryAscending ==
    /\ \A k \in 1..Len(displayedHeartbeats) : HistoryMonth(k) <= MonthIndex(currentDate)
    /\ \A k \in 1..(Len(displayedHeartbeats) - 1) : HistoryMonth(k) < HistoryMonth(k + 1)
    /\ \A k, l \in 1..Len(displayedHeartbeats) :
           k # l => displayedHeartbeats[k] # displayedHeartbeats[l]

\* C35 witness: the history of a run holds three events or more, the last in
\* the month the clock has just moved to
C35_Witness ==
    /\ lastOp = "mainAnimationLoop"
    /\ Len(displayedHeartbeats) >= 3
    /\ HistoryMonth(Len(displayedHeartbeats)) = MonthIndex(currentDate)
    /\ HistoryMonth(1) < HistoryMonth(2)

\* C36 (as stated): in the multi-pulse component every step taken while
\* isPaused is true, other than a start, leaves activeHeartbeats and
\* heartbeatQueue as they are, the call of a drain timer included
C36_PausedPulsesFrozen ==
    [][(Multi /\ hasStarted /\ isPaused /\ isPaused' /\ lastOp' # "startVisualization") =>
           UNCHANGED <<activeHeartbeats, heartbeatQueue>>]_vars

\* the number of steps that have processed pulse h
StepsDone(h) ==
    IF ~h.isFading THEN h.progress \div DrawStepMulti
    ELSE 55 + h.fadeProgress \div FadeStepMulti

\* pulse h is where its StepsDone steps have taken it: in the draw phase after
\* at most 54 increments of 0.01875, or in the fade phase, its progress past 1,
\* after at most 89 increments of 0.01125
OnItsWay(h) ==
    /\ h.progress = DrawStepMulti * (h.progress \div DrawStepMulti)
    /\ h.fadeProgress = FadeStepMulti * (h.fadeProgress \div FadeStepMulti)
    /\ ~h.isFading => (h.progress \div DrawStepMulti <= 54 /\ h.fadeProgress = 0)
    /\ h.isFading => (h.progress = 54 * DrawStepMulti /\ h.fadeProgress \div FadeStepMulti <= 89)

\* the step of the loop about to run restarts the run at the end boundary
EndsRun == TickQualifies /\ MonthIndex(AddMonth(currentDate)) >= MonthIndex(EndDate)

\* C37: in the multi-pulse component every step of the started, unpaused
\* loop that is not a restart moves each active pulse one step on, whatever
\* the other pulses are doing, and removes it when 144 steps have processed
\* it: the 145th step, after 54 draw increments, the phase switch and 89 fade
\* increments
C37_PulseRemovedAtStep145 ==
    /\ [](Multi => \A i \in 1..Len(activeHeartbeats) : OnItsWay(activeHeartbeats[i]))
    /\ [][(Multi /\ hasStarted /\ ~isPaused /\ lastOp' = "mainAnimationLoop" /\ ~EndsRun) =>
             \A i \in 1..Len(activeHeartbeats) :
                 LET h == activeHeartbeats[i]
                     after == {j \in 1..Len(activeHeartbeats') :
                                  activeHeartbeats'[j].id = h.id}
                 IN  IF StepsDone(h) = 144 THEN after = {}
                     ELSE /\ Cardinality(after) = 1
                          /\ \A j \in after :
                                 /\ activeHeartbeats'[j].params = h.params
                                 /\ StepsDone(activeHeartbeats'[j]) = StepsDone(h) + 1]_vars

\* C37 witness: the first pulse of the run has been removed, and the second,
\* the next to go, has been processed by 144 steps while a later pulse is
\* still being drawn or faded
C37_Witness ==
    /\ Multi
    /\ hasStarted
    /\ ~isPaused
    /\ lastOp = "mainAnimationLoop"
    /\ Len(activeHeartbeats) >= 2
    /\ activeHeartbeats[1].id = 1
    /\ StepsDone(activeHeartbeats[1]) = 144
    /\ StepsDone(activeHeartbeats[2]) < 144

\* the year and month in which event i starts, in months
StartMonth(i) ==
    EventYear(heartbeats[i].startDate) * 12 + EventMonth(heartbeats[i].startDate) - 1

\* event i is the first event of heartbeats that starts in its year and month
FirstOfItsMonth(i) ==
    /\ heartbeats[i].heatwaveData
    /\ \A j \in 1..(i - 1) : ~SameYearMonth(j, i)

\* how often event i is in the history of the run
TimesMatched(i) ==
    Cardinality({k \in 1..Len(displayedHeartbeats) : displayedHeartbeats[k] = i})

====
